---------------------------- MODULE Spec2Model ----------------------------
(***************************************************************************)
(* A state-machine model of the WebGPU sprite renderer (cmiller241/webgpu). *)
(* The repository holds several revisions of the same classes; the model    *)
(* keeps them apart by a tag:                                               *)
(*   ComputeTextureBatch  "single"  client/js/ComputeTextureBatch.js 1-366  *)
(*                        "shadow"  client/js/ComputeTextureBatch.js 367-697*)
(*                        "tile"    unnamed/part_002                        *)
(*   texture loaders      "module"  client/js/loadTexture.js                *)
(*                        "lib"     client/js/webgpu2.js (= part_004)       *)
(*                        "p3"      unnamed/part_003                        *)
(* Floats are exact rationals <<numerator, denominator>>; the scale factor  *)
(* is counted in twentieths (one key press changes it by 0.05).             *)
(***************************************************************************)
EXTENDS Integers, Sequences, FiniteSets, TLC

VARIABLES
    cb,          \* ComputeTextureBatch objects, by batch id
    lastCall,    \* the last per-frame call made on a batch and what it did
    cameraX, cameraY, scale20,      \* main.js camera and gpu.scaleFactor * 20
    mapRows, mapCols, treeCells,    \* mapData: size, cells holding 511 or 512
    heroPositions,                  \* main.js heroPositions (world space)
    grassLen,    \* SpriteBatch.spriteData.length of the grass batch
    vbWritten,   \* bytes of the last writeBuffer to the grass vertex buffer
    allSprites,  \* the sprite sequence last handed to the compositor
    orch,        \* which orchestrator built allSprites / ran the frame
    loader, textureCache, gpuTextures, calls,   \* texture loading
    mainPc, rafScheduled, framesRendered, errorLog, stepFailed,  \* main.js startup
    frameLog,    \* GPU-visible steps of the last frame, in program order
    invocation,  \* the last shader invocation: its inputs and what it wrote
    gpu          \* the WebGPULibrary object of part_003 and its last drawComputes

batchVars == <<cb, lastCall>>
worldVars == <<cameraX, cameraY, scale20, mapRows, mapCols, treeCells, heroPositions>>
drawVars  == <<grassLen, vbWritten, allSprites, orch>>
texVars   == <<loader, textureCache, gpuTextures, calls>>
mainVars  == <<mainPc, rafScheduled, framesRendered, errorLog, stepFailed>>
vars == <<cb, lastCall, cameraX, cameraY, scale20, mapRows, mapCols, treeCells,
          heroPositions, grassLen, vbWritten, allSprites, orch,
          loader, textureCache, gpuTextures, calls,
          mainPc, rafScheduled, framesRendered, errorLog, stepFailed, frameLog,
          invocation, gpu>>

-----------------------------------------------------------------------------
(* Bounds of the model *)

\* largest maxInstances a batch is constructed with
MaxInst == 1
\* longest sprite list passed to a per-frame call
MaxN == 2

\* no shader has run
NoInvocation == [stage |-> "none"]

-----------------------------------------------------------------------------
(* Sprites *)

\* a JavaScript number: the exact rational <<numerator, denominator>>,
\* denominator > 0
Float(v) == <<v, 1>>

Abs(n) == IF n < 0 THEN -n ELSE n

RECURSIVE GCD(_, _)
GCD(a, b) == IF b = 0 THEN (IF a = 0 THEN 1 ELSE a) ELSE GCD(b, a % b)

Norm(a) == LET g == GCD(Abs(a[1]), a[2]) IN <<a[1] \div g, a[2] \div g>>
RatAdd(a, b) == Norm(<<a[1] * b[2] + b[1] * a[2], a[2] * b[2]>>)
RatSub(a, b) == Norm(<<a[1] * b[2] - b[1] * a[2], a[2] * b[2]>>)
RatMul(a, b) == Norm(<<a[1] * b[1], a[2] * b[2]>>)
RatLt(a, b)  == a[1] * b[2] < b[1] * a[2]
RatLe(a, b)  == a[1] * b[2] <= b[1] * a[2]
RatMin(a, b) == IF RatLt(b, a) THEN b ELSE a
RatMax(a, b) == IF RatLt(a, b) THEN b ELSE a
\* Math.floor(a / k), k a positive integer
FloorDiv(a, k) == a[1] \div (a[2] * k)

\* a sprite object; x, y, rotation are numbers, the other fields integers
\* (type, maxShadowDist, tileIndex are read by the shadow revision only)
Sprite(x, y, xSize, ySize, tile, rotation, texture, baseY, index) ==
    [x |-> x, y |-> y, xSize |-> xSize, ySize |-> ySize, tile |-> tile,
     rotation |-> rotation, texture |-> texture, baseY |-> baseY, index |-> index,
     type |-> IF texture = "tree" THEN 1 ELSE 0,
     maxShadowDist |-> IF texture = "tree" THEN 100 ELSE 40,
     tileIndex |-> tile]

HeroSprite == Sprite(Float(10), Float(20), 112, 112, 0, Float(0), "hero", 80, 0)
TreeSprite == Sprite(Float(30), Float(5), 480, 480, 1, Float(0), "tree", 400, 1)
SpritePool == {HeroSprite, TreeSprite}

SeqsUpTo(S, n) == UNION {[1..k -> S] : k \in 0..n}

-----------------------------------------------------------------------------
(* ComputeTextureBatch *)

BatchIds == {"hero", "tree"}
Variants == {"single", "shadow", "tile"}
RunIds   == {"ctor", "caller"}

\* one run of init(): pc is init() itself, cpc / rpc the two sub-tasks that
\* Promise.all started
IdleRun    == [pc |-> "idle", cpc |-> "idle", rpc |-> "idle"]
StartedRun == [pc |-> "all", cpc |-> "run", rpc |-> "run"]

NoBatch == [exists |-> FALSE, variant |-> "single", maxInstances |-> 0,
            initialized |-> FALSE, initializationError |-> "null",
            currentComputeShaderCode |-> "null",
            computeBindGroupLayout |-> "none", computePipeline |-> "none",
            renderPipeline |-> "none", sampler |-> "none",
            outTexture |-> "none", uniformBuffer |-> "none",
            tileBuffer |-> "none", dataBuffer |-> "none", dataBufferSize |-> 0,
            computeBindGroup |-> "none", renderBindGroup |-> "none",
            runs |-> [r \in RunIds |-> IdleRun]]

\* constructor: stores the arguments and starts init() without awaiting it
NewBatch(v, m) ==
    [NoBatch EXCEPT !.exists = TRUE, !.variant = v, !.maxInstances = m,
                    !.runs = [r \in RunIds |-> IF r = "ctor" THEN StartedRun ELSE IdleRun]]

\* floats per instance record
Stride(v) == IF v = "shadow" THEN 9 ELSE 4

\* mutant: every revision allocates the 16-byte record of the first revision
DataBufferSize_fixed16(v, m) == m * 16
\* setupResources: size of positionBuffer / spriteDataBuffer in bytes
DataBufferSize(v, m) == m * (IF v = "shadow" THEN 36 ELSE 16)

\* init()'s catch block (and the constructor's .catch): the run that was still
\* waiting in Promise.all / setupResources records the error and rejects
Reject(b, r) ==
    IF b.runs[r].pc = "all"
    THEN [b EXCEPT !.initializationError = "error", !.runs[r].pc = "failed"]
    ELSE b

\* setupComputePipeline run to its end.  outcome "ok": shader code, layout and
\* pipeline are set; "fetch": the shader fetch rejects, nothing is set;
\* "create": createComputePipelineAsync rejects after code and layout were set
StepCompute(b, r, outcome) ==
    CASE outcome = "ok" ->
           [b EXCEPT !.currentComputeShaderCode = "default",
                     !.computeBindGroupLayout = r,
                     !.computePipeline = r,
                     !.runs[r].cpc = "ok"]
      [] outcome = "create" ->
           Reject([b EXCEPT !.currentComputeShaderCode = "default",
                            !.computeBindGroupLayout = r,
                            !.runs[r].cpc = "err"], r)
      [] OTHER -> Reject([b EXCEPT !.runs[r].cpc = "err"], r)

\* setupRenderPipeline run to its end: the pipeline and the sampler are set, or
\* a fetch / the pipeline creation rejects before either is
StepRender(b, r, ok) ==
    IF ok
    THEN [b EXCEPT !.renderPipeline = r, !.sampler = r, !.runs[r].rpc = "ok"]
    ELSE Reject([b EXCEPT !.runs[r].rpc = "err"], r)

\* setupResources followed by initialized = true.  fail = "none": all created;
\* "early": the first createTexture throws; "late": the buffers exist and
\* updateComputeBindGroup throws
StepResources(b, r, fail) ==
    CASE fail = "early" -> Reject(b, r)
      [] fail = "late" ->
           Reject([b EXCEPT !.outTexture = r, !.uniformBuffer = r,
                            !.tileBuffer = IF b.variant = "tile" THEN r ELSE @,
                            !.dataBuffer = r,
                            !.dataBufferSize = DataBufferSize(b.variant, b.maxInstances)], r)
      [] OTHER ->
           [b EXCEPT !.outTexture = r, !.uniformBuffer = r,
                     !.tileBuffer = IF b.variant = "tile" THEN r ELSE @,
                     !.dataBuffer = r,
                     !.dataBufferSize = DataBufferSize(b.variant, b.maxInstances),
                     !.computeBindGroup = r, !.renderBindGroup = r,
                     !.initialized = TRUE, !.runs[r].pc = "done"]

isInitialized(b) == b.initialized


-----------------------------------------------------------------------------
(* ComputeTextureBatch: per-frame calls.  A call yields the GPU commands it *)
(* issues, in order, as events [op, n].                                     *)

Ev(op, n) == [op |-> op, n |-> n]

\* command encoders: the one a frame loop creates, and the one the
\* object/shadow revision of draw() creates and submits by itself.  Pass
\* boundaries and submits carry their encoder in the field n.
FrameEncoder == 0
BatchEncoder == 1

RECURSIVE Flatten(_)
Flatten(ss) == IF ss = <<>> THEN <<>> ELSE Head(ss) \o Flatten(Tail(ss))

\* updateTime: one writeBuffer of the time uniform, unless guarded out
updateTime(b) ==
    IF ~b.initialized \/ b.uniformBuffer = "none" THEN <<>>
    ELSE <<Ev("writeBuffer.time", IF b.variant = "shadow" THEN 16 ELSE 4)>>

\* updateTile (part_002 only)
updateTile(b) ==
    IF ~b.initialized \/ b.tileBuffer = "none" THEN <<>>
    ELSE <<Ev("writeBuffer.tile", 4)>>

\* mutant: the clamp keeps the last max sprites instead of the first
Clamp_tail(positions, max) ==
    IF Len(positions) > max
    THEN SubSeq(positions, Len(positions) - max + 1, Len(positions))
    ELSE positions
\* positions.slice(0, this.maxInstances) when there are too many
Clamp(positions, max) ==
    IF Len(positions) > max THEN SubSeq(positions, 1, max) ELSE positions

\* the floats written for one sprite
PackOne(v, s, cw, ch) ==
    IF v = "shadow"
    THEN <<s.x, s.y, Float(s.type), Float(s.xSize), Float(s.ySize),
           Float(s.baseY), Float(s.maxShadowDist), s.rotation, Float(s.tileIndex)>>
    ELSE << <<2 * s.x[1] + (s.xSize - cw) * s.x[2], cw * s.x[2]>>,
            <<(ch - s.ySize) * s.y[2] - 2 * s.y[1], ch * s.y[2]>>,
            <<2 * s.xSize, cw>>, <<2 * s.ySize, ch>> >>

PackAll(v, positions, cw, ch) ==
    Flatten([i \in 1..Len(positions) |-> PackOne(v, positions[i], cw, ch)])

\* mutant: a list that exactly fills the buffer is refused like an empty one
updatePositions_refusesFull(b, positions, cw, ch) ==
    IF b.dataBuffer = "none" \/ Len(positions) >= b.maxInstances
    THEN [ret |-> 0, events |-> <<>>, data |-> <<>>]
    ELSE [ret |-> Len(positions),
          events |-> <<Ev("writeBuffer.data",
                          Len(PackAll(b.variant, positions, cw, ch)) * 4)>>,
          data |-> PackAll(b.variant, positions, cw, ch)]
\* updatePositions: [ret, events, data]; data is the Float32Array uploaded
\* (empty when nothing is uploaded)
updatePositions(b, positions, cw, ch) ==
    IF b.dataBuffer = "none"
    THEN [ret |-> 0, events |-> <<>>, data |-> <<>>]
    ELSE IF b.variant # "shadow" /\ (cw = 0 \/ ch = 0)
    THEN [ret |-> 0, events |-> <<>>, data |-> <<>>]
    ELSE LET p    == Clamp(positions, b.maxInstances)
             data == PackAll(b.variant, p, cw, ch)
             tiles == IF b.variant = "tile"
                      THEN Flatten([i \in 1..Len(p) |-> updateTile(b)])
                      ELSE <<>>
         IN  [ret |-> Len(p),
              events |-> tiles \o <<Ev("writeBuffer.data", Len(data) * 4)>>,
              data |-> data]

\* dispatch(computePass)
dispatch(b) ==
    IF ~b.initialized \/ b.computePipeline = "none" \/ b.computeBindGroup = "none"
    THEN <<>>
    ELSE <<Ev("dispatch", 1)>>

\* draw(renderPass, positions, ...): [events, data]
draw(b, positions, texturesOk, cw, ch) ==
    LET nothing == [events |-> <<>>, data |-> <<>>]
        up == updatePositions(b, positions, cw, ch)
    IN
    IF ~b.initialized \/ b.renderPipeline = "none" \/ b.renderBindGroup = "none"
    THEN nothing
    ELSE IF Len(positions) = 0 THEN nothing
    ELSE IF b.variant = "shadow"
    THEN IF ~texturesOk THEN nothing
         ELSE IF up.ret = 0 THEN [events |-> up.events, data |-> up.data]
         ELSE [events |-> up.events
                          \o <<Ev("beginComputePass", BatchEncoder)>>
                          \o [i \in 1..Len(positions) |-> Ev("dispatch", 1)]
                          \o <<Ev("endComputePass", BatchEncoder),
                               Ev("submit", BatchEncoder), Ev("draw", up.ret)>>,
               data |-> up.data]
    ELSE IF b.outTexture = "none" THEN nothing
         ELSE IF up.ret = 0 THEN [events |-> up.events, data |-> up.data]
         ELSE [events |-> up.events \o <<Ev("writeBuffer.time", 4), Ev("draw", up.ret)>>,
               data |-> up.data]

AnyRunFailed(b) == \E r \in RunIds : b.runs[r].pc = "failed"

NoCall == [op |-> "none", id |-> "hero", input |-> <<>>, cw |-> 0, ret |-> 0,
           events |-> <<>>, data |-> <<>>, hadBuffer |-> FALSE, bufSize |-> 0,
           failedBefore |-> FALSE, texturesOk |-> TRUE, guarded |-> FALSE,
           afterGuard |-> FALSE]

\* a runtime guard condition holds for the call: compositor not initialized,
\* zero-size canvas, empty instance list, more instances than the capacity
Guarded(b, op, input, cw) ==
    \/ ~b.initialized
    \/ /\ op \in {"draw", "updatePositions"}
       /\ (cw = 0 \/ Len(input) = 0 \/ Len(input) > b.maxInstances)

\* afterGuard: the call is a draw and an earlier draw (an earlier frame) met a
\* guard condition
Call(op, id, input, cw, ret, events, data) ==
    [op |-> op, id |-> id, input |-> input, cw |-> cw, ret |-> ret,
     events |-> events, data |-> data,
     hadBuffer |-> cb[id].dataBuffer # "none", bufSize |-> cb[id].dataBufferSize,
     failedBefore |-> AnyRunFailed(cb[id]),
     texturesOk |-> TRUE,
     guarded |-> Guarded(cb[id], op, input, cw),
     afterGuard |-> /\ op = "draw" /\ lastCall.op = "draw"
                    /\ (lastCall.guarded \/ lastCall.afterGuard)]

\* the canvas is 1920 x 1080 after resizeCanvas, or 0 x 0 when not laid out
CanvasW == {0, 1920}
CanvasH(cw) == IF cw = 0 THEN 0 ELSE 1080

-----------------------------------------------------------------------------
(* Actions on one batch *)

CallInit(id) ==
    /\ cb[id].exists
    /\ cb[id].runs["caller"].pc = "idle"
    /\ cb' = [cb EXCEPT ![id].runs["caller"] = StartedRun]
    /\ UNCHANGED lastCall

ComputeStep(id) ==
    \E r \in RunIds, outcome \in {"ok", "fetch", "create"} :
        /\ cb[id].runs[r].cpc = "run"
        /\ cb' = [cb EXCEPT ![id] = StepCompute(cb[id], r, outcome)]
        /\ UNCHANGED lastCall

RenderStep(id) ==
    \E r \in RunIds, ok \in BOOLEAN :
        /\ cb[id].runs[r].rpc = "run"
        /\ cb' = [cb EXCEPT ![id] = StepRender(cb[id], r, ok)]
        /\ UNCHANGED lastCall

ResourcesStep(id) ==
    \E r \in RunIds, fail \in {"none", "early", "late"} :
        /\ cb[id].runs[r].pc = "all"
        /\ cb[id].runs[r].cpc = "ok"
        /\ cb[id].runs[r].rpc = "ok"
        /\ cb' = [cb EXCEPT ![id] = StepResources(cb[id], r, fail)]
        /\ UNCHANGED lastCall

UpdateTime(id) ==
    /\ cb[id].exists
    /\ lastCall' = Call("updateTime", id, <<>>, 0, 0, updateTime(cb[id]), <<>>)
    /\ UNCHANGED cb

UpdatePositions(id) ==
    \E positions \in SeqsUpTo(SpritePool, MaxN), cw \in CanvasW :
        LET up == updatePositions(cb[id], positions, cw, CanvasH(cw))
        IN  /\ cb[id].exists
            /\ lastCall' = Call("updatePositions", id, positions, cw, up.ret,
                                up.events, up.data)
            /\ UNCHANGED cb

Dispatch(id) ==
    /\ cb[id].exists
    /\ lastCall' = Call("dispatch", id, <<>>, 0, 0, dispatch(cb[id]), <<>>)
    /\ UNCHANGED cb

Draw(id) ==
    \E positions \in SeqsUpTo(SpritePool, MaxN), cw \in CanvasW, texturesOk \in BOOLEAN :
        LET d == draw(cb[id], positions, texturesOk, cw, CanvasH(cw))
        IN  /\ cb[id].exists
            /\ lastCall' = [Call("draw", id, positions, cw, 0, d.events, d.data)
                                EXCEPT !.texturesOk = texturesOk]
            /\ UNCHANGED cb

-----------------------------------------------------------------------------
(* The world of main.js: camera, scale factor, tile map, heroes.            *)
(* mapData is mapRows x mapCols cells of grass (tile value below 511)       *)
(* except the cells of treeCells, <<row, col, tileValue>> with a tile value *)
(* of 511 or 512.                                                           *)

TileSize == 32
CanvasWidth == 1920
CanvasHeight == 1080
CameraSpeed == 5
MaxGrassSprites == 4096
HeroMaxInstances == 10000
TreeMaxInstances == 2000
MinScale20 == 20
MaxScale20 == 80

Min(a, b) == IF a < b THEN a ELSE b
Max(a, b) == IF a < b THEN b ELSE a

\* canvasWidth * gpu.scaleFactor
Scaled(n, s20) == Norm(<<n * s20, 20>>)

\* keydown 'z' / 'x': gpu.setScaleFactor(min(s + 0.05, 4)) / (max(s - 0.05, 1))
ScaleUp_unclamped(s20) == s20 + 1
ScaleUp(s20)   == Min(s20 + 1, MaxScale20)
ScaleDown(s20) == Max(s20 - 1, MinScale20)

\* tick(): one axis of the camera; d is -1, 0 or 1 as the arrow keys are held,
\* extent the map's size along the axis in pixels minus the canvas'
MoveCamera(c, d, extent, s20) ==
    RatMax(Float(0),
           RatMin(RatAdd(c, Float(d * CameraSpeed)), Norm(<<extent * 20, s20>>)))

\* how many of the integers lo..hi index a row / column of an n-long map
CountIn(lo, hi, n) == Max(0, Min(hi, n - 1) - Max(lo, 0) + 1)

\* render(): first and last map column / row the double loop visits
MainCols(cx, s20) ==
    LET startCol == FloorDiv(cx, TileSize) - 5
        maxCols  == FloorDiv(Scaled(CanvasWidth, s20), TileSize) + 10
    IN  <<startCol - 10, startCol + maxCols + 9>>
MainRows(cy, s20) ==
    LET startRow == FloorDiv(cy, TileSize) - 5
        maxRows  == FloorDiv(Scaled(CanvasHeight, s20), TileSize) + 10
    IN  <<startRow - 15, startRow + maxRows + 14>>

\* render(): spriteData.length, one grass sprite per visited cell of the map
MainGrass(cx, cy, s20, rows, cols) ==
    CountIn(MainRows(cy, s20)[1], MainRows(cy, s20)[2], rows)
    * CountIn(MainCols(cx, s20)[1], MainCols(cx, s20)[2], cols)

\* cells in the order the double loop meets them (row by row)
RECURSIVE CellSeq(_)
CellSeq(S) ==
    IF S = {} THEN <<>>
    ELSE LET c == CHOOSE c \in S : \A d \in S :
                      c[1] < d[1] \/ (c[1] = d[1] /\ c[2] <= d[2])
         IN  <<c>> \o CellSeq(S \ {c})

\* render(): tile = tileValue - 1; tile === 511 is a tree
MainIsTree(tileValue) == tileValue - 1 = 511

\* render(): the two sprites pushed per visited tree cell, index = treeIndex++
MainTrees(cx, cy, s20, rows, cols, cells, sway) ==
    LET seen == CellSeq({c \in cells :
                    /\ MainIsTree(c[3])
                    /\ c[1] >= Max(MainRows(cy, s20)[1], 0)
                    /\ c[1] <= Min(MainRows(cy, s20)[2], rows - 1)
                    /\ c[2] >= Max(MainCols(cx, s20)[1], 0)
                    /\ c[2] <= Min(MainCols(cx, s20)[2], cols - 1)})
        tree(k, tile) ==
            Sprite(RatSub(Float(seen[k][2] * TileSize - 240 + 16), cx),
                   RatSub(Float(seen[k][1] * TileSize - 240 + 16), cy),
                   480, 480, tile, IF tile = 0 THEN Float(0) ELSE sway,
                   "tree", 250, 2 * (k - 1) + tile)
    IN  Flatten([k \in 1..Len(seen) |-> <<tree(k, 0), tree(k, 1)>>])

\* render(): the heroes within 480 px of the scaled canvas, index = position
\* in heroPositions
MainHeroes(cx, cy, s20, heroes) ==
    LET shown(i) == LET x == RatSub(heroes[i].x, cx)
                        y == RatSub(heroes[i].y, cy)
                    IN  /\ RatLe(Float(-480), x)
                        /\ RatLe(x, RatAdd(Scaled(CanvasWidth, s20), Float(480)))
                        /\ RatLe(Float(-480), y)
                        /\ RatLe(y, RatAdd(Scaled(CanvasHeight, s20), Float(480)))
        hero(i) == Sprite(RatSub(heroes[i].x, cx), RatSub(heroes[i].y, cy),
                          heroes[i].xSize, heroes[i].ySize, heroes[i].tile,
                          heroes[i].rotation, "hero", heroes[i].baseY, i - 1)
        all == [i \in 1..Len(heroes) |-> <<i, hero(i)>>]
        kept == SelectSeq(all, LAMBDA e : shown(e[1]))
    IN  [k \in 1..Len(kept) |-> kept[k][2]]

\* y + baseY
DepthKey(s) == RatAdd(s.y, Float(s.baseY))

\* the comparators handed to Array.prototype.sort: TRUE when a sorts before b
\*   "main"  main.js 200-204     y, then hero before tree, then index
\*   "p12"   part_012 149-154    y + baseY, then index
\*   "game"  game.js 107         y
Before(kind, a, b) ==
    CASE kind = "main" ->
           IF a.y # b.y THEN RatLt(a.y, b.y)
           ELSE IF a.texture # b.texture THEN a.texture = "hero"
           ELSE a.index < b.index
      [] kind = "p12" ->
           IF DepthKey(a) # DepthKey(b) THEN RatLt(DepthKey(a), DepthKey(b))
           ELSE a.index < b.index
      [] OTHER -> RatLt(a.y, b.y)

\* Array.prototype.sort (stable): x goes in front of the first element it
\* sorts before
Insert(kind, sorted, x) ==
    LET hits == {i \in 1..Len(sorted) : Before(kind, x, sorted[i])}
        at   == IF hits = {} THEN Len(sorted) + 1
                ELSE CHOOSE i \in hits : \A j \in hits : i <= j
    IN  SubSeq(sorted, 1, at - 1) \o <<x>> \o SubSeq(sorted, at, Len(sorted))

RECURSIVE SortFrom(_, _, _)
SortFrom(kind, sorted, rest) ==
    IF rest = <<>> THEN sorted
    ELSE SortFrom(kind, Insert(kind, sorted, Head(rest)), Tail(rest))

Sort(kind, s) == SortFrom(kind, <<>>, s)

-----------------------------------------------------------------------------
(* SpriteBatch and WebGPULibrary.draw (webgpu2.js)                          *)

\* the commands of one object, tagged with the object that issued them
Who(id, events) ==
    [i \in 1..Len(events) |-> [op |-> events[i].op, n |-> events[i].n, who |-> id]]

\* SpriteBatch constructor: byte size of the vertex buffer
SpriteBatchBufferSize(maxSprites, hasRotation) ==
    maxSprites * 6 * (IF hasRotation THEN 7 ELSE 4) * 4

\* SpriteBatch.draw: the whole spriteData array is turned into vertices and
\* uploaded, then drawn
SpriteBatchDraw(n, hasRotation) ==
    IF n = 0 THEN <<>>
    ELSE <<Ev("writeBuffer.vertex", n * 6 * (IF hasRotation THEN 7 ELSE 4) * 4),
           Ev("draw", n * 6)>>

\* sprite.texture === textureIds.heroTextureId ? computeBatches.hero : .tree
BatchOf(sprite) == IF sprite.texture = "hero" THEN "hero" ELSE "tree"

\* a batch whose constructor-started init() run went through
ReadyBatch(v, m) ==
    StepResources(StepRender(StepCompute(NewBatch(v, m), "ctor", "ok"), "ctor", TRUE),
                  "ctor", "none")

\* draw(): the loop of the compute pass (lines 247-276)
RECURSIVE ComputeLoop(_, _, _, _, _)
ComputeLoop(bs, sprites, i, cur, acc) ==
    IF i > Len(sprites)
    THEN IF cur # "none" THEN acc \o Who(cur, dispatch(bs[cur])) ELSE acc
    ELSE LET id == BatchOf(sprites[i])
         IN  IF ~bs[id].exists \/ ~isInitialized(bs[id])
             THEN ComputeLoop(bs, sprites, i + 1, cur, acc)
             ELSE LET acc1 == IF cur # "none" /\ id # cur
                              THEN acc \o Who(cur, dispatch(bs[cur]))
                              ELSE acc
                  IN  ComputeLoop(bs, sprites, i + 1, id,
                                  acc1 \o Who(id, updateTime(bs[id]))
                                       \o Who(id, updateTile(bs[id])))

\* draw(): the loop of the render pass (lines 313-348)
RECURSIVE RenderLoop(_, _, _, _, _, _)
RenderLoop(bs, sprites, i, cur, curSprites, acc) ==
    IF i > Len(sprites) THEN acc
    ELSE LET id == BatchOf(sprites[i])
         IN  IF ~bs[id].exists \/ ~isInitialized(bs[id])
             THEN RenderLoop(bs, sprites, i + 1, cur, curSprites, acc)
             ELSE LET flush == cur # "none" /\ id # cur /\ Len(curSprites) > 0
                      acc1 == IF flush
                              THEN acc \o Who(cur, draw(bs[cur], curSprites, TRUE,
                                                        CanvasWidth, CanvasHeight).events)
                              ELSE acc
                      cs1  == (IF flush THEN <<>> ELSE curSprites) \o <<sprites[i]>>
                      acc2 == IF i = Len(sprites)
                              THEN acc1 \o Who(id, draw(bs[id], cs1, TRUE,
                                                        CanvasWidth, CanvasHeight).events)
                              ELSE acc1
                  IN  RenderLoop(bs, sprites, i + 1, id, cs1, acc2)

\* mutant: the render pass is recorded before the compute pass
LibDraw_renderFirst(bs, sprites, grassN) ==
    Who("gpu", <<Ev("beginRenderPass", FrameEncoder)>>)
    \o Who("grass", SpriteBatchDraw(grassN, FALSE))
    \o RenderLoop(bs, sprites, 1, "none", <<>>, <<>>)
    \o Who("gpu", <<Ev("endRenderPass", FrameEncoder),
                    Ev("beginComputePass", FrameEncoder)>>)
    \o ComputeLoop(bs, sprites, 1, "none", <<>>)
    \o Who("gpu", <<Ev("endComputePass", FrameEncoder), Ev("submit", FrameEncoder)>>)
\* WebGPULibrary.draw(grassBatchId, computeBatches, allSprites, textureIds)
LibDraw(bs, sprites, grassN) ==
    Who("gpu", <<Ev("beginComputePass", FrameEncoder)>>)
    \o ComputeLoop(bs, sprites, 1, "none", <<>>)
    \o Who("gpu", <<Ev("endComputePass", FrameEncoder),
                    Ev("beginRenderPass", FrameEncoder)>>)
    \o Who("grass", SpriteBatchDraw(grassN, FALSE))
    \o RenderLoop(bs, sprites, 1, "none", <<>>, <<>>)
    \o Who("gpu", <<Ev("endRenderPass", FrameEncoder), Ev("submit", FrameEncoder)>>)

\* bytes of the writeBuffer to the grass vertex buffer in a frame's commands
\* (the buffer keeps its content when the frame uploads nothing)
VertexBytes(log, old) ==
    LET w == {i \in 1..Len(log) : log[i].op = "writeBuffer.vertex"}
    IN  IF w = {} THEN old ELSE log[CHOOSE i \in w : TRUE].n

-----------------------------------------------------------------------------
(* main.js: key handlers and one animation frame *)

\* frames a behaviour runs
MaxFrames == 1

KeyZ ==
    /\ orch \in {"main", "p12", "game"}
    /\ scale20' = ScaleUp(scale20)
    /\ UNCHANGED <<cameraX, cameraY, mapRows, mapCols, treeCells, heroPositions,
                   batchVars, drawVars, texVars, mainVars, frameLog, invocation, gpu>>

KeyX ==
    /\ orch \in {"main", "p12", "game"}
    /\ scale20' = ScaleDown(scale20)
    /\ UNCHANGED <<cameraX, cameraY, mapRows, mapCols, treeCells, heroPositions,
                   batchVars, drawVars, texVars, mainVars, frameLog, invocation, gpu>>

\* the keydown handler of the second Game of game.js: steps of 0.1
ScaleUpTenth(s20)   == Min(s20 + 2, MaxScale20)
ScaleDownTenth(s20) == Max(s20 - 2, MinScale20)

KeyZTenth ==
    /\ orch = "game"
    /\ scale20' = ScaleUpTenth(scale20)
    /\ UNCHANGED <<cameraX, cameraY, mapRows, mapCols, treeCells, heroPositions,
                   batchVars, drawVars, texVars, mainVars, frameLog, invocation, gpu>>

KeyXTenth ==
    /\ orch = "game"
    /\ scale20' = ScaleDownTenth(scale20)
    /\ UNCHANGED <<cameraX, cameraY, mapRows, mapCols, treeCells, heroPositions,
                   batchVars, drawVars, texVars, mainVars, frameLog, invocation, gpu>>

\* gameLoop: tick(); render(); requestAnimationFrame(gameLoop)
FrameMain ==
    \E dx \in {-1, 0, 1}, dy \in {-1, 0, 1}, sway \in {Float(0), <<1, 100>>} :
        LET cx == MoveCamera(cameraX, dx, mapCols * TileSize - CanvasWidth, scale20)
            cy == MoveCamera(cameraY, dy, mapRows * TileSize - CanvasHeight, scale20)
            grassN == MainGrass(cx, cy, scale20, mapRows, mapCols)
            sorted == Sort("main",
                           MainTrees(cx, cy, scale20, mapRows, mapCols, treeCells, sway)
                           \o MainHeroes(cx, cy, scale20, heroPositions))
            log == LibDraw(cb, sorted, grassN)
        IN  /\ orch = "main"
            /\ framesRendered < MaxFrames
            /\ cameraX' = cx
            /\ cameraY' = cy
            /\ grassLen' = grassN
            /\ allSprites' = sorted
            /\ frameLog' = log
            /\ UNCHANGED <<invocation, gpu>>
            /\ vbWritten' = VertexBytes(log, vbWritten)
            /\ framesRendered' = framesRendered + 1
            /\ UNCHANGED <<scale20, mapRows, mapCols, treeCells, heroPositions,
                           batchVars, orch, texVars, mainPc, rafScheduled,
                           errorLog, stepFailed>>

-----------------------------------------------------------------------------
(* part_012 (main) with part_003 (WebGPULibrary.drawComputes)               *)

P12CanvasWidth == 1280
P12CanvasHeight == 720
P12WorldSize == 1000

\* tick(): Math.max(0, Math.min(c, 1000 - canvasWidth / gpu.scaleFactor))
P12Move(c, d, canvas, s20) ==
    RatMax(Float(0),
           RatMin(RatAdd(c, Float(d * CameraSpeed)),
                  RatSub(Float(P12WorldSize), Norm(<<canvas * 20, s20>>))))

\* render(): sprite => ({...sprite, x: sprite.x - cameraX, y: sprite.y - cameraY})
Shift(sprite, cx, cy) ==
    [sprite EXCEPT !.x = RatSub(sprite.x, cx), !.y = RatSub(sprite.y, cy)]

\* drawComputes(): consecutive sprites of one texture form a batch
RECURSIVE Runs(_, _)
Runs(done, rest) ==
    IF rest = <<>> THEN done
    ELSE IF done # <<>> /\ done[Len(done)][1].texture = Head(rest).texture
         THEN Runs([done EXCEPT ![Len(done)] = Append(@, Head(rest))], Tail(rest))
         ELSE Runs(Append(done, <<Head(rest)>>), Tail(rest))

\* drawComputes(sprites, ...): compute passes, render pass, submit, clean-up
DrawComputes(sprites) ==
    IF sprites = <<>> THEN <<>>
    ELSE LET groups == Runs(<<>>, sprites)
             tex(g) == groups[g][1].texture
             n(g)   == Len(groups[g])
         IN  Flatten([g \in 1..Len(groups) |->
                        Who(tex(g), <<Ev("writeBuffer.time", 4)>>
                                    \o Flatten([i \in 1..n(g) |->
                                          <<Ev("beginComputePass", FrameEncoder),
                                            Ev("dispatch", 1),
                                            Ev("endComputePass", FrameEncoder)>>]))])
             \o Who("gpu", <<Ev("beginRenderPass", FrameEncoder)>>)
             \o Flatten([g \in 1..Len(groups) |->
                        Who(tex(g), <<Ev("newSpriteBatch", n(g)),
                                      Ev("writeBuffer.data", n(g) * 4 * 16),
                                      Ev("writeBuffer.index", n(g) * 6 * 4),
                                      Ev("draw", n(g) * 6)>>)])
             \o Who("gpu", <<Ev("endRenderPass", FrameEncoder),
                             Ev("submit", FrameEncoder)>>)
             \o Flatten([g \in 1..Len(groups) |-> Who(tex(g), <<Ev("destroy", 0)>>)])

\* gameLoop of part_012: tick(); render(); requestAnimationFrame(gameLoop)
FrameP12 ==
    \E dx \in {-1, 0, 1}, dy \in {-1, 0, 1} :
        LET cx == P12Move(cameraX, dx, P12CanvasWidth, scale20)
            cy == P12Move(cameraY, dy, P12CanvasHeight, scale20)
            sorted == Sort("p12", [i \in 1..Len(heroPositions) |->
                                      Shift(heroPositions[i], cx, cy)])
        IN  /\ orch = "p12"
            /\ framesRendered < MaxFrames
            /\ cameraX' = cx
            /\ cameraY' = cy
            /\ allSprites' = sorted
            /\ frameLog' = DrawComputes(sorted)
            /\ UNCHANGED <<invocation, gpu>>
            /\ framesRendered' = framesRendered + 1
            /\ UNCHANGED <<scale20, mapRows, mapCols, treeCells, heroPositions,
                           batchVars, orch, grassLen, vbWritten, texVars, mainPc,
                           rafScheduled, errorLog, stepFailed>>

-----------------------------------------------------------------------------
(* part_003: WebGPULibrary, its registries and drawComputes                 *)

\* the constructor: empty maps, no context
NewLibrary ==
    [context |-> FALSE, textures |-> {}, shaders |-> {}, batches |-> <<>>,
     computePipelines |-> {}, uniformBuffers |-> {},
     last |-> [op |-> "none"]]

\* keys of this.batches are "batch_<n>": the key is modelled by n, and
\* this.batches by a function on the set of its keys
BatchKeys(L) == DOMAIN L.batches

\* `${type}_${this.shaders.size}`
ShaderId(type, size) == [type |-> type, n |-> size]

\* `compute_${textureId}`
ComputeId(textureId) ==
    CASE textureId = "hero" -> "compute_hero"
      [] textureId = "tree" -> "compute_tree"
      [] OTHER -> "compute_other"

\* newShader(code, type)
newShader(L, type) ==
    [L EXCEPT !.shaders = @ \cup {ShaderId(type, Cardinality(L.shaders))}]

\* Map.set(key, value)
MapSet(f, k, v) == [x \in DOMAIN f \cup {k} |-> IF x = k THEN v ELSE f[x]]

\* Map.delete(key)
MapDelete(f, k) == [x \in DOMAIN f \ {k} |-> f[x]]

\* mutant: the batch is entered in the registry before the shaders are looked up
newSpriteBatch_registerFirst(L, maxSprites, vertexShaderId, fragmentShaderId, textureId) ==
    LET batchId == Cardinality(BatchKeys(L))
        set == [L EXCEPT !.batches = MapSet(@, batchId,
                                        [maxSprites |-> maxSprites, spriteCount |-> 0,
                                         textureId |-> textureId]),
                         !.uniformBuffers = @ \cup {batchId}]
    IN  IF \/ vertexShaderId \notin L.shaders
           \/ fragmentShaderId \notin L.shaders
           \/ textureId \notin L.textures
        THEN [lib |-> set, threw |-> TRUE, batchId |-> batchId]
        ELSE [lib |-> set, threw |-> FALSE, batchId |-> batchId]
\* newSpriteBatch: throws when a shader id is unknown ("Shader not found") or
\* the texture id is (TypeError of undefined.texture), before anything is
\* entered; otherwise enters the batch under batch_<this.batches.size>
newSpriteBatch(L, maxSprites, vertexShaderId, fragmentShaderId, textureId) ==
    LET batchId == Cardinality(BatchKeys(L))
    IN  IF \/ vertexShaderId \notin L.shaders
           \/ fragmentShaderId \notin L.shaders
           \/ textureId \notin L.textures
        THEN [lib |-> L, threw |-> TRUE, batchId |-> batchId]
        ELSE [lib |-> [L EXCEPT !.batches = MapSet(@, batchId,
                                      [maxSprites |-> maxSprites, spriteCount |-> 0,
                                       textureId |-> textureId]),
                                !.uniformBuffers = @ \cup {batchId}],
              threw |-> FALSE, batchId |-> batchId]

\* setupComputePipeline: throws on an unknown shader or texture
\* (computeShader.module, textureInfo.texture) before anything is entered
setupComputePipeline(L, textureId, computeShaderId) ==
    IF computeShaderId \notin L.shaders \/ textureId \notin L.textures
    THEN L
    ELSE [L EXCEPT !.computePipelines = @ \cup {ComputeId(textureId)},
                   !.textures = @ \cup {ComputeId(textureId)}]

\* the render loop of drawComputes from group g on: a temporary batch per
\* group that has a compute pipeline; a throw of newSpriteBatch ends the call
RECURSIVE RenderGroups(_, _, _, _, _, _)
RenderGroups(L, groups, g, vs, fs, acc) ==
    IF g > Len(groups) THEN [lib |-> L, threw |-> FALSE] @@ acc
    ELSE LET computeBatchId == ComputeId(groups[g][1].texture)
         IN  IF computeBatchId \notin L.computePipelines
             THEN RenderGroups(L, groups, g + 1, vs, fs, acc)
             ELSE LET made == newSpriteBatch(L, Len(groups[g]), vs, fs, computeBatchId)
                      id == made.batchId
                  IN  IF made.threw
                      THEN [lib |-> made.lib, threw |-> TRUE] @@ acc
                      ELSE RenderGroups(
                               [made.lib EXCEPT !.batches[id].spriteCount = Len(groups[g])],
                               groups, g + 1, vs, fs,
                               [events |-> acc.events \o <<Ev("newSpriteBatch", id),
                                                           Ev("draw", Len(groups[g]) * 6)>>,
                                batchIdsToClean |-> Append(acc.batchIdsToClean, id)])

\* the clean-up loop of drawComputes
RECURSIVE Cleanup(_, _, _)
Cleanup(L, ids, events) ==
    IF ids = <<>> THEN [lib |-> L, events |-> events]
    ELSE IF Head(ids) \in BatchKeys(L)
         THEN Cleanup([L EXCEPT !.batches = MapDelete(@, Head(ids)),
                                !.uniformBuffers = @ \ {Head(ids)}],
                      Tail(ids), Append(events, Ev("destroy", Head(ids))))
         ELSE Cleanup(L, Tail(ids), events)

\* the compute passes of drawComputes: per group with a compute pipeline the
\* time upload, then one pass with one dispatch per sprite
ComputePasses(L, groups) ==
    Flatten([g \in 1..Len(groups) |->
        IF ComputeId(groups[g][1].texture) \notin L.computePipelines THEN <<>>
        ELSE <<Ev("writeBuffer.time", 4)>>
             \o Flatten([i \in 1..Len(groups[g]) |->
                    <<Ev("beginComputePass", FrameEncoder),
                      Ev("dispatch", 1),
                      Ev("endComputePass", FrameEncoder)>>])])

\* drawComputes(sprites, time, vertexShaderId, fragmentShaderId): what it
\* leaves in the library, whether it threw, and its registry events in order
drawComputes(L, sprites, vs, fs) ==
    IF sprites = <<>> \/ ~L.context
    THEN [lib |-> L, threw |-> FALSE, events |-> <<>>, batchIdsToClean |-> <<>>]
    ELSE LET drawn == RenderGroups(L, Runs(<<>>, sprites), 1, vs, fs,
                                   [events |-> ComputePasses(L, Runs(<<>>, sprites))
                                               \o <<Ev("beginRenderPass", FrameEncoder)>>,
                                    batchIdsToClean |-> <<>>])
         IN  IF drawn.threw THEN drawn
             ELSE LET cleaned == Cleanup(drawn.lib, drawn.batchIdsToClean,
                                         drawn.events \o <<Ev("endRenderPass", FrameEncoder),
                                                           Ev("submit", FrameEncoder)>>)
                  IN  [lib |-> cleaned.lib, threw |-> FALSE, events |-> cleaned.events,
                       batchIdsToClean |-> drawn.batchIdsToClean]

\* shaders and permanent batches a behaviour creates
MaxShaders == 2
MaxBatches == 1

ShaderTypes == {"vertex", "fragment"}

\* shader ids a caller may hand over, known to the library or not
ShaderArgs == {ShaderId(t, n) : t \in ShaderTypes, n \in 0..(MaxShaders - 1)}

\* sprites as drawComputes reads them: it groups by sprite.texture; "grass"
\* never has a compute pipeline
LibrarySprites == {[texture |-> t] : t \in {"hero", "tree", "grass"}}

LibUnchanged ==
    UNCHANGED <<batchVars, worldVars, drawVars, texVars, mainVars, frameLog, invocation>>

\* gpu.last describes the call just made, when that was a drawComputes
Other(L) == [L EXCEPT !.last = [op |-> "none"]]

\* initialize(): device, context and sampler are set
LibInitialize ==
    /\ ~gpu.context
    /\ gpu' = Other([gpu EXCEPT !.context = TRUE])
    /\ LibUnchanged

\* loadTexture(url, name, ...) run to its end
LibLoadTexture ==
    \E name \in {"hero", "tree"} :
        /\ gpu.context
        /\ gpu' = Other([gpu EXCEPT !.textures = @ \cup {name}])
        /\ LibUnchanged

LibNewShader ==
    \E type \in ShaderTypes :
        /\ gpu.context
        /\ Cardinality(gpu.shaders) < MaxShaders
        /\ gpu' = Other(newShader(gpu, type))
        /\ LibUnchanged

\* a batch the application creates for itself and keeps
LibNewSpriteBatch ==
    \E vs \in ShaderArgs, fs \in ShaderArgs, textureId \in {"hero", "tree"} :
        /\ gpu.context
        /\ Cardinality(BatchKeys(gpu)) < MaxBatches
        /\ gpu' = Other(newSpriteBatch(gpu, 4096, vs, fs, textureId).lib)
        /\ LibUnchanged

LibSetupComputePipeline ==
    \E textureId \in {"hero", "tree"}, computeShaderId \in ShaderArgs :
        /\ gpu.context
        /\ gpu' = Other(setupComputePipeline(gpu, textureId, computeShaderId))
        /\ LibUnchanged

\* render() of part_012: gpu.drawComputes(renderSprites, time, vs, fs)
LibDrawComputes ==
    \E sprites \in SeqsUpTo(LibrarySprites, MaxN), vs \in ShaderArgs, fs \in ShaderArgs :
        LET call == drawComputes(gpu, sprites, vs, fs)
        IN  /\ gpu' = [call.lib EXCEPT !.last =
                          [op |-> "drawComputes", before |-> gpu.batches,
                           threw |-> call.threw, events |-> call.events,
                           batchIdsToClean |-> call.batchIdsToClean]]
            /\ LibUnchanged

-----------------------------------------------------------------------------
(* part_000 (gameLoop) with game.js, first revision (class Game)            *)

\* WebGPUSetup.resizeCanvas in a 1920 x 1080 window: the canvas keeps the
\* integer part of window.innerWidth / scaleFactor
GameCanvas(n, s20) == (n * 20) \div s20

\* Game constructor: two sprites per cell holding 511 or 512, over the whole map
GameTrees(cells) ==
    LET seen == CellSeq({c \in cells : c[3] = 511 \/ c[3] = 512})
        tree(k, tileIndex) ==
            Sprite(Float(seen[k][2] * TileSize - 240 + 16),
                   Float(seen[k][1] * TileSize - 240 + 16),
                   480, 480, tileIndex, Float(0), "tree", 400, 0)
    IN  Flatten([k \in 1..Len(seen) |-> <<tree(k, 0), tree(k, 1)>>])

\* Game constructor: plasmaPositions, sorted by y
GamePlasma(cells, heroes) == Sort("game", GameTrees(cells) \o heroes)

\* Game.render: spriteDataForBatch0.length
GameGrass(cx, cy, s20, rows, cols, cells) ==
    LET cw == GameCanvas(CanvasWidth, s20)
        ch == GameCanvas(CanvasHeight, s20)
        startCol == FloorDiv(cx, TileSize)
        startRow == FloorDiv(cy, TileSize)
        maxCols == FloorDiv(Scaled(cw, s20), TileSize) + 1
        maxRows == FloorDiv(Scaled(ch, s20), TileSize) + 1
        r1 == Max(startRow - 10, 0)
        r2 == Min(startRow + maxRows + 9, rows - 1)
        c1 == Max(startCol - 5, 0)
        c2 == Min(startCol + maxCols + 9, cols - 1)
    IN  CountIn(startRow - 10, startRow + maxRows + 9, rows)
        * CountIn(startCol - 5, startCol + maxCols + 9, cols)
        - Cardinality({c \in cells : /\ ~(c[3] <= 511)
                                      /\ c[1] >= r1 /\ c[1] <= r2
                                      /\ c[2] >= c1 /\ c[2] <= c2})

\* Game.render: the filter that yields visibleSprites
GameVisible(sprite, cx, cy, s20) ==
    LET halfW == Norm(<<GameCanvas(CanvasWidth, s20) * s20, 40>>)
        halfH == Norm(<<GameCanvas(CanvasHeight, s20) * s20, 40>>)
        mx == RatAdd(halfW, Float(sprite.xSize * 3))
        my == RatAdd(halfH, Float(sprite.ySize * 3))
    IN  /\ RatLe(RatSub(cx, mx), sprite.x) /\ RatLe(sprite.x, RatAdd(cx, mx))
        /\ RatLe(RatSub(cy, my), sprite.y) /\ RatLe(sprite.y, RatAdd(cy, my))

\* gameLoop of part_000: uniforms, compute pass, game.update(), game.render(),
\* submit, requestAnimationFrame(gameLoop)
FrameGame ==
    \E dx \in {-1, 0, 1}, dy \in {-1, 0, 1}, sway \in {Float(0), <<1, 10>>},
       texturesOk \in BOOLEAN :
        LET b  == cb["hero"]
            cw == GameCanvas(CanvasWidth, scale20)
            ch == GameCanvas(CanvasHeight, scale20)
            cx == MoveCamera(cameraX, dx, mapCols * TileSize - cw, scale20)
            cy == MoveCamera(cameraY, dy, mapRows * TileSize - ch, scale20)
            grassN == GameGrass(cx, cy, scale20, mapRows, mapCols, treeCells)
            visible == SelectSeq(heroPositions,
                                 LAMBDA sp : GameVisible(sp, cx, cy, scale20))
            log == Who("gpu", <<Ev("writeBuffer.uniform", 8)>>)
                   \o Who("hero", updateTime(b))
                   \o Who("gpu", <<Ev("beginComputePass", FrameEncoder)>>)
                   \o Who("hero", dispatch(b))
                   \o Who("gpu", <<Ev("endComputePass", FrameEncoder),
                                   Ev("beginRenderPass", FrameEncoder)>>)
                   \o Who("grass", SpriteBatchDraw(grassN, FALSE))
                   \o (IF isInitialized(b)
                       THEN Who("hero", draw(b, visible, texturesOk, cw, ch).events)
                       ELSE <<>>)
                   \o Who("gpu", <<Ev("endRenderPass", FrameEncoder),
                                   Ev("submit", FrameEncoder)>>)
        IN  /\ orch = "game"
            /\ framesRendered < MaxFrames
            /\ cameraX' = cx
            /\ cameraY' = cy
            /\ grassLen' = grassN
            /\ allSprites' = IF isInitialized(b) THEN visible ELSE allSprites
            /\ frameLog' = log
            /\ UNCHANGED <<invocation, gpu>>
            /\ vbWritten' = VertexBytes(log, vbWritten)
            /\ heroPositions' =
                   IF isInitialized(b)
                   THEN [i \in 1..Len(heroPositions) |->
                            IF heroPositions[i].type = 1
                            THEN [heroPositions[i] EXCEPT !.rotation = sway]
                            ELSE heroPositions[i]]
                   ELSE heroPositions
            /\ framesRendered' = framesRendered + 1
            /\ UNCHANGED <<scale20, mapRows, mapCols, treeCells, batchVars, orch,
                           texVars, mainPc, rafScheduled, errorLog, stepFailed>>

-----------------------------------------------------------------------------
(* The render pipeline of ComputeTextureBatch on one pixel: the fragment    *)
(* shader texture_fragment.wgsl, then the blend state of the colour target  *)
(* A texel of an rgba8unorm texture is <<r, g, b, a>> with channels 0..255; *)
(* sampled, a channel is the number channel / 255.                          *)

Sample(texel) == [i \in 1..4 |-> Norm(<<texel[i], 255>>)]

\* texture_fragment.wgsl main: the object where it has any alpha, else the
\* map darkened by the shadow
FragmentMain(mapTexel, shadowTexel, objectTexel) ==
    LET mapColor    == Sample(mapTexel)
        shadowColor == Sample(shadowTexel)
        objectColor == Sample(objectTexel)
        keep        == RatSub(Float(1), shadowColor[4])
        shadowedMap == [i \in 1..4 |->
                           IF i < 4
                           THEN RatAdd(RatMul(mapColor[i], keep),
                                       RatMul(shadowColor[i], shadowColor[4]))
                           ELSE RatAdd(RatMul(mapColor[4], keep), mapColor[4])]
    IN  IF RatLt(Float(0), objectColor[4]) THEN objectColor ELSE shadowedMap

\* a fragment output or blend result as the unorm target keeps it
Clamp01(c) == RatMax(Float(0), RatMin(c, Float(1)))

\* blend: color and alpha both src-alpha, one-minus-src-alpha, add
Blend(src, dst) ==
    LET s    == [i \in 1..4 |-> Clamp01(src[i])]
        rest == RatSub(Float(1), s[4])
    IN  [i \in 1..4 |-> Clamp01(RatAdd(RatMul(s[i], s[4]), RatMul(dst[i], rest)))]

\* the store into the 8-bit unorm target: round(c * 255)
Unorm8(c) == FloorDiv(RatAdd(RatMul(c, Float(255)), <<1, 2>>), 1)

\* one fragment of the draw: what the colour target holds afterwards
Composite(mapTexel, shadowTexel, objectTexel, targetTexel) ==
    LET out == Blend(FragmentMain(mapTexel, shadowTexel, objectTexel),
                     Sample(targetTexel))
    IN  [i \in 1..4 |-> Unorm8(out[i])]

\* the render pass runs the pipeline on the pixel chosen at the start
RunFragment ==
    /\ invocation.stage = "fragment"
    /\ ~invocation.done
    /\ invocation' =
           [invocation EXCEPT
               !.done = TRUE,
               !.out = [target |-> Composite(invocation.in.map, invocation.in.shadow,
                                             invocation.in.object,
                                             invocation.in.target)]]
    /\ UNCHANGED <<batchVars, worldVars, drawVars, texVars, mainVars, frameLog, gpu>>

-----------------------------------------------------------------------------
(* The compute shader with the object and the shadow output (part_007,     *)
(* lines 66-197) on one pixel of one sprite.  Vectors are pairs of          *)
(* rationals; a rotation is given by <<cos, sin>> of the angle.             *)

VecAdd(p, q) == <<RatAdd(p[1], q[1]), RatAdd(p[2], q[2])>>
VecSub(p, q) == <<RatSub(p[1], q[1]), RatSub(p[2], q[2])>>

\* (x * cosR + y * sinR, -x * sinR + y * cosR)
Rotate(p, rot) ==
    <<RatAdd(RatMul(p[1], rot[1]), RatMul(p[2], rot[2])),
      RatSub(RatMul(p[2], rot[1]), RatMul(p[1], rot[2]))>>

Half(sprite)   == <<Norm(<<sprite.width, 2>>), Norm(<<sprite.height, 2>>)>>
Offset(sprite) == <<Float(sprite.offsetX), Float(sprite.offsetY)>>

\* the bounds test on a sprite-local coordinate
WithinSprite(tc, sprite) ==
    /\ RatLe(Float(0), tc[1]) /\ RatLt(tc[1], Float(sprite.width))
    /\ RatLe(Float(0), tc[2]) /\ RatLt(tc[2], Float(sprite.height))

\* texCoord: the pixel relative to the sprite centre, rotated, moved back by
\* half the sprite
TexCoord(sprite, pixelPos) ==
    VecAdd(Rotate(VecSub(pixelPos, VecAdd(Offset(sprite), Half(sprite))), sprite.rot),
           Half(sprite))

\* the texel a nearest-filter sample at the uv of tc reads: heroes use the
\* whole 112 x 112 texture, trees the 480 px frame tileIndex of 1440 x 480
Texel(tc, sprite) ==
    <<FloorDiv(tc[1], 1) + (IF sprite.spriteType = 0 THEN 0 ELSE sprite.tileIndex * 480),
      FloorDiv(tc[2], 1)>>

\* the input textures of the model: alpha > 0 everywhere, nowhere, or in the
\* rows above the sprite's base line only
InputTextures == {"opaque", "clear", "above"}
HasAlpha(texture, texel, sprite) ==
    \/ texture = "opaque"
    \/ texture = "above" /\ texel[2] < sprite.baseY

\* cos(0.785398) and sin(0.785398) agree to six digits, 0.707107; both are
\* taken as 70 / 99
CosTheta == <<70, 99>>
SinTheta == <<70, 99>>

ShadowBaseY(sprite) == Float(sprite.offsetY + sprite.baseY)

\* dy > 0.0 && dy < sprite.maxShadowDist
InShadowBand(sprite, pixelPos) ==
    LET dy == RatSub(pixelPos[2], ShadowBaseY(sprite))
    IN  RatLt(Float(0), dy) /\ RatLt(dy, Float(sprite.maxShadowDist))

\* (sourceX, sourceY): the pixel projected back along the light direction
SourceXY(sprite, pixelPos) ==
    LET dy     == RatSub(pixelPos[2], ShadowBaseY(sprite))
        dPrime == RatMul(dy, <<SinTheta[2], SinTheta[1]>>)
    IN  <<RatSub(pixelPos[1], RatMul(dPrime, CosTheta)),
          RatSub(ShadowBaseY(sprite), dPrime)>>

\* sourceTexCoord: the source relative to the sprite offset, rotated, plus
\* half the sprite
SourceTexCoord(sprite, pixelPos) ==
    VecAdd(Rotate(VecSub(SourceXY(sprite, pixelPos), Offset(sprite)), sprite.rot),
           Half(sprite))

\* main: what the invocation for pixel global_id.xy of the workgroups
\* global_id.z = workgroup_id.z writes
ComputeMain(gid, canvas, sprite, texture) ==
    LET pixelPos == <<Float(gid[1]), Float(gid[2])>>
        texCoord == TexCoord(sprite, pixelPos)
        src      == SourceTexCoord(sprite, pixelPos)
        object   == /\ WithinSprite(texCoord, sprite)
                    /\ HasAlpha(texture, Texel(texCoord, sprite), sprite)
        shadow   == /\ InShadowBand(sprite, pixelPos)
                    /\ WithinSprite(src, sprite)
                    /\ HasAlpha(texture, Texel(src, sprite), sprite)
    IN  IF \/ gid[1] >= canvas[1] \/ gid[2] >= canvas[2]
           \/ gid[3] >= sprite.arrayLength
        THEN [written |-> FALSE, objectAlpha |-> 0, shadowAlpha |-> 0,
              texCoord |-> texCoord, sourceTexCoord |-> src]
        ELSE [written |-> TRUE,
              objectAlpha |-> IF object THEN 255 ELSE 0,
              shadowAlpha |-> IF shadow THEN Unorm8(<<8, 10>>) ELSE 0,
              texCoord |-> texCoord, sourceTexCoord |-> src]

\* the compute pass runs the shader on the pixel chosen at the start
RunCompute ==
    /\ invocation.stage = "compute"
    /\ ~invocation.done
    /\ invocation' =
           [invocation EXCEPT
               !.done = TRUE,
               !.out = ComputeMain(invocation.in.gid, invocation.in.canvas,
                                   invocation.in.sprite, invocation.in.texture)]
    /\ UNCHANGED <<batchVars, worldVars, drawVars, texVars, mainVars, frameLog, gpu>>

-----------------------------------------------------------------------------
(* Texture loading: loadTexture of loadTexture.js ("module"), of            *)
(* WebGPULibrary in webgpu2.js / part_004 ("lib") and of WebGPULibrary in   *)
(* part_003 ("p3"). A load is two steps, before and after its awaits        *)
(* (fetch / decode / createImageBitmap); a cache hit has no await.          *)

Loaders == {"module", "lib", "p3"}
Urls == {"assets/tree3.png", "assets/hero.png"}

\* bitmap.width, bitmap.height of the image behind a URL: the sheet sizes
\* newSpriteBatch assumes, and the 112 x 112 hero frame
ImageSize(url) ==
    CASE url = "assets/sprites2.png" -> <<1024, 1024>>
      [] url = "assets/tree3.png"    -> <<1440, 480>>
      [] OTHER                       -> <<112, 112>>

\* explicit (width, height) arguments; 0 stands for the default null
Requests == {<<0, 0>>, <<112, 112>>, <<1440, 480>>}

\* loads a behaviour makes
MaxLoads == 3

\* number of load steps taken so far (a load that awaits takes two)
Clock(cs) == Len(cs) + Cardinality({i \in 1..Len(cs) : cs[i].pc # "fetching"})

\* textureCache.has(url) / textureCache.get(url)
Cached(cache, url) == \E e \in cache : e.url = url
CacheGet(cache, url) == CHOOSE e \in cache : e.url = url

\* textureCache.set(url, entry)
CacheSet(cache, entry) == {e \in cache : e.url # entry.url} \cup {entry}

\* which revisions keep a cache
HasCache(l) == l \in {"module", "lib"}

\* width || imageBitmap.width; loadTexture.js takes no size arguments
Wanted(l, arg, natural) == IF l = "module" \/ arg = 0 THEN natural ELSE arg

\* the guard of webgpu2.js 112-114; the other revisions have none
GuardDims(l, tw, th, url) ==
    l = "lib" /\ (tw > ImageSize(url)[1] \/ th > ImageSize(url)[2])

\* loadTexture up to its first await (textureId only names the entry of
\* this.textures and has no part in what is loaded)
StartLoad(url, w, h) ==
    /\ loader \in Loaders
    /\ Len(calls) < MaxLoads
    /\ LET c == [url |-> url, w |-> w, h |-> h,
                 start |-> Clock(calls) + 1]
       IN  IF HasCache(loader) /\ Cached(textureCache, url)
           THEN LET e == CacheGet(textureCache, url)
                IN  calls' = Append(calls,
                        c @@ [pc |-> "done", tex |-> e.tex, rw |-> e.w, rh |-> e.h,
                              created |-> FALSE, end |-> Clock(calls) + 2])
           ELSE calls' = Append(calls,
                        c @@ [pc |-> "fetching", tex |-> 0, rw |-> 0, rh |-> 0,
                              created |-> FALSE, end |-> 0])
    /\ UNCHANGED <<loader, textureCache, gpuTextures>>

\* loadTexture after its awaits: fetchOk is FALSE when fetch, decode or
\* createImageBitmap rejects
FinishLoad(i, fetchOk) ==
    /\ i \in 1..Len(calls)
    /\ calls[i].pc = "fetching"
    /\ LET c  == calls[i]
           tw == Wanted(loader, c.w, ImageSize(c.url)[1])
           th == Wanted(loader, c.h, ImageSize(c.url)[2])
           now == Clock(calls) + 1
       IN  IF ~fetchOk \/ GuardDims(loader, tw, th, c.url)
           THEN /\ calls' = [calls EXCEPT ![i] = [c EXCEPT !.pc = "failed", !.end = now]]
                /\ UNCHANGED <<textureCache, gpuTextures>>
           ELSE /\ gpuTextures' = gpuTextures + 1
                /\ calls' = [calls EXCEPT ![i] =
                       [c EXCEPT !.pc = "done", !.tex = gpuTextures + 1,
                                 !.rw = tw, !.rh = th, !.created = TRUE, !.end = now]]
                /\ textureCache' =
                       IF HasCache(loader)
                       THEN CacheSet(textureCache,
                                [url |-> c.url, tex |-> gpuTextures + 1, w |-> tw, h |-> th])
                       ELSE textureCache
    /\ UNCHANGED loader

-----------------------------------------------------------------------------
(* main.js startup: main() awaits init() and then schedules the frame loop  *)

\* the three loadTexture calls of init(), in order
MainTextures ==
    <<[url |-> "assets/sprites2.png", w |-> 0, h |-> 0],
      [url |-> "assets/tree3.png", w |-> 1440, h |-> 480],
      [url |-> "assets/hero.png", w |-> 0, h |-> 0]>>

\* new ComputeTextureBatch(...) followed at once by await batch.init(): the
\* constructor's run of init() and the caller's are both under way
BatchBoth(v, m) == [NewBatch(v, m) EXCEPT !.runs["caller"] = StartedRun]

FailedRuns(b) == {r \in RunIds : b.runs[r].pc = "failed"}

\* init()'s catch logs and rethrows, main()'s catch logs: no frame loop
Abort ==
    /\ mainPc' = "aborted"
    /\ errorLog' = errorLog \o <<"Error in init:", "Error in main:">>
    /\ stepFailed' = TRUE
    /\ UNCHANGED <<rafScheduled, framesRendered>>

Proceed(pc) ==
    /\ mainPc' = pc
    /\ UNCHANGED <<rafScheduled, framesRendered, errorLog, stepFailed>>

\* new WebGPULibrary('webgpuCanvas').initialize()
MainInitialize ==
    \E ok \in BOOLEAN :
        /\ mainPc = "gpu"
        /\ IF ok THEN Proceed("map") ELSE Abort
        /\ UNCHANGED <<batchVars, worldVars, drawVars, texVars, frameLog, invocation, gpu>>

\* fetch('js/map.json'), response.ok, response.json()
MainFetchMap ==
    \E ok \in BOOLEAN :
        /\ mainPc = "map"
        /\ IF ok
           THEN /\ mapRows' = 100 /\ mapCols' = 100
                /\ treeCells' = {<<10, 4, 512>>}
                /\ Proceed("loadStart")
           ELSE /\ Abort
                /\ UNCHANGED <<mapRows, mapCols, treeCells>>
        /\ UNCHANGED <<batchVars, cameraX, cameraY, scale20, heroPositions,
                       drawVars, texVars, frameLog, invocation, gpu>>

\* gpu.loadTexture(url, id, width, height) is called
MainLoadStart ==
    /\ mainPc = "loadStart"
    /\ LET p == MainTextures[Len(calls) + 1] IN StartLoad(p.url, p.w, p.h)
    /\ Proceed("loadWait")
    /\ UNCHANGED <<batchVars, worldVars, drawVars, frameLog, invocation, gpu>>

\* ... and settles: init() goes on to the next load, to the shaders, or throws
MainLoadFinish ==
    \E fetchOk \in BOOLEAN :
        /\ mainPc = "loadWait"
        /\ FinishLoad(Len(calls), fetchOk)
        /\ IF calls'[Len(calls)].pc = "done"
           THEN Proceed(IF Len(calls) = Len(MainTextures) THEN "shaders"
                                                           ELSE "loadStart")
           ELSE Abort
        /\ UNCHANGED <<batchVars, worldVars, drawVars, frameLog, invocation, gpu>>

\* the three shader fetches, newShader x 3, newSpriteBatch, and the hero batch.
\* "fetch": a fetch rejects; "invalid": a fetched source does not compile, for
\* which createShaderModule and createRenderPipeline do not throw
MainShaders ==
    \E outcome \in {"ok", "fetch", "invalid"} :
        /\ mainPc = "shaders"
        /\ IF outcome = "fetch"
           THEN Abort /\ UNCHANGED cb
           ELSE /\ cb' = [cb EXCEPT !["hero"] = BatchBoth("tile", HeroMaxInstances)]
                /\ mainPc' = "heroInit"
                /\ stepFailed' = (stepFailed \/ outcome = "invalid")
                /\ UNCHANGED <<rafScheduled, framesRendered, errorLog>>
        /\ UNCHANGED <<lastCall, worldVars, drawVars, texVars, frameLog, invocation, gpu>>

\* a step of a batch's init() runs; a run that fails logs
\* 'Error in ComputeTextureBatch.init:'
MainBatchStep(id) ==
    /\ ComputeStep(id) \/ RenderStep(id) \/ ResourcesStep(id)
    /\ errorLog' = IF FailedRuns(cb'[id]) # FailedRuns(cb[id])
                   THEN Append(errorLog, "Error in ComputeTextureBatch.init:")
                   ELSE errorLog
    /\ UNCHANGED <<mainPc, rafScheduled, framesRendered, stepFailed,
                   worldVars, drawVars, texVars, frameLog, invocation, gpu>>

\* await heroComputeBatch.init() settles; isInitialized(); the tree batch
MainHeroReady ==
    /\ mainPc = "heroInit"
    /\ cb["hero"].runs["caller"].pc \in {"done", "failed"}
    /\ IF cb["hero"].runs["caller"].pc = "done" /\ isInitialized(cb["hero"])
       THEN /\ cb' = [cb EXCEPT !["tree"] = BatchBoth("tile", TreeMaxInstances)]
            /\ Proceed("treeInit")
       ELSE Abort /\ UNCHANGED cb
    /\ UNCHANGED <<lastCall, worldVars, drawVars, texVars, frameLog, invocation, gpu>>

\* await treeComputeBatch.init() settles; isInitialized(); heroPositions, the
\* listeners; then main() calls requestAnimationFrame(gameLoop)
MainTreeReady ==
    /\ mainPc = "treeInit"
    /\ cb["tree"].runs["caller"].pc \in {"done", "failed"}
    /\ IF cb["tree"].runs["caller"].pc = "done" /\ isInitialized(cb["tree"])
       THEN /\ heroPositions' = <<Sprite(Float(300), Float(100), 112, 112, 0,
                                         Float(0), "hero", 80, 0)>>
            /\ mainPc' = "loop"
            /\ rafScheduled' = TRUE
            /\ UNCHANGED <<framesRendered, errorLog, stepFailed>>
       ELSE Abort /\ UNCHANGED heroPositions
    /\ UNCHANGED <<batchVars, cameraX, cameraY, scale20, mapRows, mapCols,
                   treeCells, drawVars, texVars, frameLog, invocation, gpu>>

\* the callback requestAnimationFrame scheduled
LoopFrame == rafScheduled /\ FrameMain

-----------------------------------------------------------------------------
(* Values of the variables a specification does not move *)

IdleWorld ==
    /\ cameraX = Float(0) /\ cameraY = Float(0) /\ scale20 = MinScale20
    /\ mapRows = 0 /\ mapCols = 0 /\ treeCells = {}
    /\ heroPositions = <<>>
IdleDraw  == grassLen = 0 /\ vbWritten = 0 /\ allSprites = <<>> /\ orch = "none"
IdleTex   == loader = "none" /\ textureCache = {} /\ gpuTextures = 0 /\ calls = <<>>
IdleMain  == /\ mainPc = "none" /\ rafScheduled = FALSE /\ framesRendered = 0
             /\ errorLog = <<>> /\ stepFailed = FALSE
IdleFrame == frameLog = <<>> /\ invocation = NoInvocation /\ gpu = NewLibrary
IdleBatch == cb = [id \in BatchIds |-> NoBatch] /\ lastCall = NoCall

-----------------------------------------------------------------------------
(* SpecBatch: one ComputeTextureBatch of any revision, its two init() runs  *)
(* and the per-frame calls made on it                                       *)

InitBatch ==
    /\ \E v \in Variants, m \in 1..MaxInst :
          cb = [id \in BatchIds |-> IF id = "hero" THEN NewBatch(v, m) ELSE NoBatch]
    /\ lastCall = NoCall
    /\ IdleWorld /\ IdleDraw /\ IdleTex /\ IdleMain /\ IdleFrame

InitSteps(id) ==
    \/ CallInit(id)
    \/ ComputeStep(id)
    \/ RenderStep(id)
    \/ ResourcesStep(id)

NextBatch ==
    /\ \/ InitSteps("hero")
       \/ UpdateTime("hero")
       \/ Dispatch("hero")
       \/ Draw("hero")
    /\ UNCHANGED <<worldVars, drawVars, texVars, mainVars, frameLog, invocation, gpu>>

SpecBatch == InitBatch /\ [][NextBatch]_vars

(* SpecUpload: the same batch, with updatePositions called on it *)

NextUpload ==
    /\ \/ InitSteps("hero")
       \/ UpdatePositions("hero")
    /\ UNCHANGED <<worldVars, drawVars, texVars, mainVars, frameLog, invocation, gpu>>

SpecUpload == InitBatch /\ [][NextUpload]_vars

CanvasOk(c) == cb[c.id].variant = "shadow" \/ c.cw # 0

\* C1: updatePositions called with n <= maxInstances sprites (instance buffer
\* present, canvas not zero-sized) uploads exactly n records, returns n, and
\* the bytes uploaded never exceed the allocated size of the instance buffer.
C1_PacksExactlyN ==
    (/\ lastCall.op = "updatePositions"
     /\ lastCall.hadBuffer
     /\ CanvasOk(lastCall)
     /\ Len(lastCall.input) <= cb[lastCall.id].maxInstances)
    => /\ lastCall.ret = Len(lastCall.input)
       /\ Len(lastCall.data) = Len(lastCall.input) * Stride(cb[lastCall.id].variant)
       /\ lastCall.events # <<>>
       /\ lastCall.events[Len(lastCall.events)] =
              Ev("writeBuffer.data", Len(lastCall.data) * 4)
       /\ Len(lastCall.data) * 4 <= lastCall.bufSize

\* C1 witness: a full batch (n = maxInstances >= 1) was uploaded
C1_Witness ==
    /\ lastCall.op = "updatePositions"
    /\ lastCall.hadBuffer
    /\ CanvasOk(lastCall)
    /\ Len(lastCall.input) = cb[lastCall.id].maxInstances
    /\ lastCall.ret = cb[lastCall.id].maxInstances
    /\ cb[lastCall.id].variant = "shadow"

C8_FailedInitStaysInert ==
    /\ \A id \in BatchIds : AnyRunFailed(cb[id]) => ~isInitialized(cb[id])
    /\ (lastCall.op \in {"updateTime", "dispatch", "draw"} /\ lastCall.failedBefore)
           => lastCall.events = <<>>

-----------------------------------------------------------------------------
(* SpecGrass: main.js after a successful init(), on a map of 100 x 100 or   *)
(* 40 x 60 cells; the user zooms and scrolls, frames are drawn              *)

\* a hero of main.js: world position, hero.png is 112 x 112
Hero(x, y) == Sprite(Float(x), Float(y), 112, 112, 0, Float(0), "hero", 80, 0)

MainBatches ==
    [id \in BatchIds |-> ReadyBatch("tile", IF id = "hero" THEN HeroMaxInstances
                                                         ELSE TreeMaxInstances)]

InitGrass ==
    /\ orch = "main"
    /\ cb = MainBatches
    /\ lastCall = NoCall
    /\ cameraX = Float(0) /\ cameraY = Float(0) /\ scale20 = MinScale20
    /\ \E size \in {<<100, 100>>, <<40, 60>>} : mapRows = size[1] /\ mapCols = size[2]
    /\ treeCells = {<<10, 4, 512>>}
    /\ heroPositions = <<Hero(300, 100)>>
    /\ grassLen = 0 /\ vbWritten = 0 /\ allSprites = <<>>
    /\ IdleTex /\ IdleFrame
    /\ mainPc = "loop" /\ rafScheduled = TRUE /\ framesRendered = 0
    /\ errorLog = <<>> /\ stepFailed = FALSE

NextGrass == KeyZ \/ KeyX \/ FrameMain

SpecGrass == InitGrass /\ [][NextGrass]_vars

\* C3: whatever the camera position and the scale factor in [1, 4], a frame
\* hands the grass SpriteBatch at most maxSprites (4096) sprites, so the
\* vertex upload never exceeds the vertex buffer allocated for maxSprites.
C3_GrassWithinBuffer ==
    /\ grassLen <= MaxGrassSprites
    /\ vbWritten <= SpriteBatchBufferSize(MaxGrassSprites, FALSE)

-----------------------------------------------------------------------------
(* SpecOrder: one of the three frame loops on a small world; every frame    *)
(* builds, sorts and draws its sprite list                                  *)

\* world heights with ties and inversions between y and y + baseY:
\* a tree of cell row 10 has y = 96 and depth 346, as a hero at y = 266
MainHeroes0 == {Hero(300, 96), Hero(300, 100), Hero(300, 266)}
MainTreeCells == {{}, {<<10, 4, 512>>}, {<<10, 4, 512>>, <<12, 6, 512>>},
                  {<<10, 4, 511>>}}

\* part_012 builds its sprites once, index = position in the list
P12Pool == {Sprite(Float(500), Float(596), 112, 112, 0, Float(0), "hero", 80, 0),
            Sprite(Float(600), Float(766), 112, 112, 0, Float(0), "hero", 80, 0),
            Sprite(Float(500), Float(596), 480, 480, 0, Float(0), "tree", 250, 0)}
Indexed(s) == [i \in 1..Len(s) |-> [s[i] EXCEPT !.index = i]]

GameHeroes0 == {Sprite(Float(400), Float(300), 112, 112, 0, Float(0), "hero", 80, 0),
                Sprite(Float(400), Float(420), 112, 112, 0, Float(0), "hero", 80, 0)}
GameTreeCells == {{}, {<<20, 20, 512>>}, {<<20, 20, 511>>}}

InitOrderMain ==
    /\ orch = "main"
    /\ cb = MainBatches
    /\ cameraX = Float(0) /\ cameraY = Float(0)
    /\ mapRows = 100 /\ mapCols = 100
    /\ treeCells \in MainTreeCells
    /\ heroPositions \in {Sort("game", h) : h \in SeqsUpTo(MainHeroes0, MaxN)}

InitOrderP12 ==
    /\ orch = "p12"
    /\ cb = [id \in BatchIds |-> NoBatch]
    /\ cameraX = Float(500) /\ cameraY = Float(500)
    /\ mapRows = 0 /\ mapCols = 0
    /\ treeCells = {}
    /\ heroPositions \in {Indexed(h) : h \in SeqsUpTo(P12Pool, MaxN)}

InitOrderGame ==
    /\ orch = "game"
    /\ \E v \in {"single", "shadow"} :
          cb = [id \in BatchIds |-> IF id = "hero" THEN ReadyBatch(v, HeroMaxInstances)
                                                  ELSE NoBatch]
    /\ cameraX = Float(600) /\ cameraY = Float(400)
    /\ mapRows = 100 /\ mapCols = 100
    /\ treeCells \in GameTreeCells
    /\ \E h \in SeqsUpTo(GameHeroes0, MaxN) : heroPositions = GamePlasma(treeCells, h)

InitOrder ==
    /\ InitOrderMain \/ InitOrderP12 \/ InitOrderGame
    /\ scale20 \in {MinScale20, MinScale20 + 1, MaxScale20}
    /\ lastCall = NoCall
    /\ grassLen = 0 /\ vbWritten = 0 /\ allSprites = <<>>
    /\ IdleTex /\ IdleFrame
    /\ mainPc = "loop" /\ rafScheduled = TRUE /\ framesRendered = 0
    /\ errorLog = <<>> /\ stepFailed = FALSE

NextOrder == FrameMain \/ FrameP12 \/ FrameGame

SpecOrder == InitOrder /\ [][NextOrder]_vars

\* C4: the sprite list handed to the compositor is in painter's order: the
\* depth key y + baseY never decreases along it, whatever the input order and
\* the texture class of the sprites.
C4_PaintersOrder ==
    \A i, j \in 1..Len(allSprites) :
        i < j => RatLe(DepthKey(allSprites[i]), DepthKey(allSprites[j]))

\* C5: of two sprites with equal depth key y + baseY, the one with the smaller
\* insertion index comes first in the list, whatever their texture classes.
C5_TieByIndex ==
    \A i, j \in 1..Len(allSprites) :
        (i < j /\ DepthKey(allSprites[i]) = DepthKey(allSprites[j]))
            => allSprites[i].index <= allSprites[j].index

Positions(op) == {i \in 1..Len(frameLog) : frameLog[i].op = op}

\* C10: within a frame the uniform upload comes first, the instance data is
\* uploaded before any compute dispatch is recorded, the dispatches precede the
\* render draws of the computed sprites, and the queue submit closes the frame.
C10_FrameOrder ==
    /\ \A d \in Positions("dispatch") :
           \E t \in Positions("writeBuffer.time") \cup Positions("writeBuffer.uniform") :
               t < d
    /\ \A u \in Positions("writeBuffer.data"), d \in Positions("dispatch") : u < d
    /\ \A d \in Positions("dispatch"), r \in Positions("draw") :
           frameLog[r].who # "grass" => d < r
    /\ \A r \in Positions("draw") : \E q \in Positions("submit") : r < q

-----------------------------------------------------------------------------
(* SpecTex: a texture loader of one of the three revisions and up to        *)
(* MaxLoads loads of two images, overlapping or one after the other         *)

InitTex ==
    /\ loader \in Loaders
    /\ textureCache = {} /\ gpuTextures = 0 /\ calls = <<>>
    /\ IdleBatch /\ IdleWorld /\ IdleDraw /\ IdleMain /\ IdleFrame

NextTex ==
    /\ \/ \E url \in Urls, r \in Requests : StartLoad(url, r[1], r[2])
       \/ \E i \in 1..MaxLoads, fetchOk \in BOOLEAN : FinishLoad(i, fetchOk)
    /\ UNCHANGED <<batchVars, worldVars, drawVars, mainVars, frameLog, invocation, gpu>>

SpecTex == InitTex /\ [][NextTex]_vars

\* C6: once a load of a key has completed, every load of the same key made
\* later returns the texture that load returned and creates no GPU texture.
C6_LoadIdempotent ==
    \A i, j \in 1..Len(calls) :
        (/\ calls[i].url = calls[j].url
         /\ calls[i].pc = "done" /\ calls[j].pc = "done"
         /\ calls[i].end < calls[j].start)
            => (calls[j].tex = calls[i].tex /\ ~calls[j].created)

\* a load whose explicit width or height is beyond the image's natural size
Oversized(c) ==
    \/ c.w > ImageSize(c.url)[1]
    \/ c.h > ImageSize(c.url)[2]

\* C7: a finished load whose explicit width or height exceeds the image's
\* natural size has failed and returned no texture, cached URL or not.
C7_OversizedLoadFails ==
    \A i \in 1..Len(calls) :
        (calls[i].pc # "fetching" /\ Oversized(calls[i]))
            => (calls[i].pc = "failed" /\ calls[i].tex = 0)

-----------------------------------------------------------------------------
(* SpecStart: main() of main.js from its first await to the frame loop      *)

InitStart ==
    /\ orch = "main"
    /\ IdleBatch /\ IdleWorld /\ IdleFrame
    /\ grassLen = 0 /\ vbWritten = 0 /\ allSprites = <<>>
    /\ loader = "lib" /\ textureCache = {} /\ gpuTextures = 0 /\ calls = <<>>
    /\ mainPc = "gpu" /\ rafScheduled = FALSE /\ framesRendered = 0
    /\ errorLog = <<>> /\ stepFailed = FALSE

NextStart ==
    \/ MainInitialize
    \/ MainFetchMap
    \/ MainLoadStart
    \/ MainLoadFinish
    \/ MainShaders
    \/ \E id \in BatchIds : MainBatchStep(id)
    \/ MainHeroReady
    \/ MainTreeReady
    \/ LoopFrame

SpecStart == InitStart /\ [][NextStart]_vars

\* C9: when a step of the initialisation has failed, the frame loop is never
\* scheduled, no frame is rendered, and the failure is in the error log.
C9_LoopOnlyAfterInit ==
    (stepFailed \/ \E id \in BatchIds : FailedRuns(cb[id]) # {})
        => (~rafScheduled /\ framesRendered = 0 /\ errorLog # <<>>)

-----------------------------------------------------------------------------
(* Pass and submission order within a frame (SpecOrder)                     *)

MaxOf(S) == CHOOSE i \in S : \A j \in S : j <= i
MinOf(S) == CHOOSE i \in S : \A j \in S : i <= j

\* the dispatch at position d of the frame's commands executes before the draw
\* at position r: its compute pass ends before the draw's render pass begins
\* in the same encoder, or its encoder is submitted before the draw's
ExecutesBefore(d, r) ==
    LET begun == {p \in Positions("beginComputePass") : p < d}
        ended == {p \in Positions("endComputePass") : p > d}
        rbeg  == {p \in Positions("beginRenderPass") : p < r}
    IN  /\ begun # {} /\ ended # {} /\ rbeg # {}
        /\ LET enc  == frameLog[MaxOf(begun)].n
               renc == frameLog[MaxOf(rbeg)].n
           IN  IF enc = renc
               THEN MinOf(ended) < MaxOf(rbeg)
               ELSE \E q, t \in Positions("submit") :
                       /\ frameLog[q].n = enc /\ frameLog[t].n = renc
                       /\ MinOf(ended) < q /\ q < t

\* C11: in every frame, each compute dispatch of a compositor executes before
\* every render draw of that compositor: pass boundary within one command
\* buffer, or earlier submission of the dispatch's command buffer.
C11_ComputeBeforeRender ==
    \A d \in Positions("dispatch"), r \in Positions("draw") :
        frameLog[d].who = frameLog[r].who => ExecutesBefore(d, r)

\* a frame of the object/shadow revision: a dispatch in the frame's own
\* compute pass, dispatches in the batch's separately submitted encoder, and
\* a draw of the same compositor
C11_Witness ==
    /\ \E q \in Positions("submit") : frameLog[q].n = BatchEncoder
    /\ \E d \in Positions("dispatch"), r \in Positions("draw") :
          /\ frameLog[d].who = frameLog[r].who
          /\ frameLog[MaxOf({p \in Positions("beginComputePass") : p < d})].n
                 = FrameEncoder

\* compute dispatches a compositor records in the frame
Dispatches(w) == Cardinality({d \in Positions("dispatch") : frameLog[d].who = w})

\* sprite instances a compositor is given in the frame: part_000 hands all
\* visible sprites to its one batch, the others split them by texture
Composited(w) ==
    IF orch = "game" THEN Len(allSprites)
    ELSE Cardinality({i \in 1..Len(allSprites) : allSprites[i].texture = w})

\* C12: a compositor that takes part in a frame records exactly one compute
\* dispatch, or exactly as many as the sprite instances it composites.
C12_DispatchCount ==
    \A w \in BatchIds :
        Dispatches(w) > 0 => (Dispatches(w) = 1 \/ Dispatches(w) = Composited(w))

-----------------------------------------------------------------------------
(* SpecDraw: a batch whose constructor started init(), drawn in every frame *)
(* with any instance list, canvas and textures, before and after init()     *)
(* has finished                                                             *)

NextDraw ==
    /\ \/ ComputeStep("hero")
       \/ RenderStep("hero")
       \/ ResourcesStep("hero")
       \/ Draw("hero")
    /\ UNCHANGED <<worldVars, drawVars, texVars, mainVars, frameLog, invocation, gpu>>

SpecDraw == InitBatch /\ [][NextDraw]_vars

-----------------------------------------------------------------------------
(* The instance builders on a map with one foliage cell (SpecOrder)         *)

\* the foliage instances of a sprite list
Foliage(s) == SelectSeq(s, LAMBDA sp : sp.texture = "tree")

\* C15: on a map whose only special cell holds 511, the instance builder
\* yields exactly two foliage instances, tile indices 0 and 1, both at
\* (col * 32 - 240 + 16, row * 32 - 240 + 16), in world space or relative to
\* the camera.
C15_SingleCell511 ==
    \A cell \in treeCells :
        (/\ treeCells = {cell} /\ cell[3] = 511
         /\ framesRendered > 0 /\ orch \in {"main", "game"})
        => LET f  == Foliage(IF orch = "game" THEN heroPositions ELSE allSprites)
               px == Float(cell[2] * TileSize - 240 + 16)
               py == Float(cell[1] * TileSize - 240 + 16)
           IN  /\ Len(f) = 2
               /\ {f[i].tileIndex : i \in 1..Len(f)} = {0, 1}
               /\ \A i \in 1..Len(f) :
                     /\ f[i].x \in {px, RatSub(px, cameraX)}
                     /\ f[i].y \in {py, RatSub(py, cameraY)}

-----------------------------------------------------------------------------
(* SpecCull: one frame of main.js or of game.js over heroes standing at the *)
(* edges of the viewport                                                    *)

\* a hero just inside the right edge of the 1920 px wide viewport whose left
\* edge is at 0 (main.js) or 600 (game.js), one in its middle, one far off
CullHeroesMain == {Hero(1900, 96), Hero(300, 100), Hero(5000, 100)}
CullHeroesGame == {Hero(2500, 500), Hero(900, 600), Hero(6000, 600)}

InitCull ==
    /\ \/ /\ orch = "main"
          /\ cb = MainBatches
          /\ cameraX = Float(0) /\ cameraY = Float(0)
          /\ heroPositions \in {Sort("game", h) : h \in SeqsUpTo(CullHeroesMain, MaxN)}
       \/ /\ orch = "game"
          /\ \E v \in {"single", "shadow"} :
                cb = [id \in BatchIds |->
                         IF id = "hero" THEN ReadyBatch(v, HeroMaxInstances)
                                        ELSE NoBatch]
          /\ cameraX = Float(600) /\ cameraY = Float(400)
          /\ \E h \in SeqsUpTo(CullHeroesGame, MaxN) :
                heroPositions = GamePlasma({}, h)
    /\ mapRows = 100 /\ mapCols = 100 /\ treeCells = {}
    /\ scale20 \in {MinScale20, MinScale20 + 1}
    /\ lastCall = NoCall
    /\ grassLen = 0 /\ vbWritten = 0 /\ allSprites = <<>>
    /\ IdleTex /\ IdleFrame
    /\ mainPc = "loop" /\ rafScheduled = TRUE /\ framesRendered = 0
    /\ errorLog = <<>> /\ stepFailed = FALSE

NextCull == FrameMain \/ FrameGame

SpecCull == InitCull /\ [][NextCull]_vars

\* scaledCanvasWidth / scaledCanvasHeight of the frame, the extent of the
\* viewport the ground tiles are placed into (x = mapCol * 32 - cameraX)
ViewW == IF orch = "game" THEN Scaled(GameCanvas(CanvasWidth, scale20), scale20)
                          ELSE Scaled(CanvasWidth, scale20)
ViewH == IF orch = "game" THEN Scaled(GameCanvas(CanvasHeight, scale20), scale20)
                          ELSE Scaled(CanvasHeight, scale20)

\* the bounding box of a sprite, taken relative to the camera, meets the
\* viewport [0, ViewW] x [0, ViewH] without any inflation
OnScreen(sp) ==
    LET sx == RatSub(sp.x, cameraX)
        sy == RatSub(sp.y, cameraY)
    IN  /\ RatLe(Float(0), RatAdd(sx, Float(sp.xSize))) /\ RatLe(sx, ViewW)
        /\ RatLe(Float(0), RatAdd(sy, Float(sp.ySize))) /\ RatLe(sy, ViewH)

\* the i-th sprite of heroPositions is in the frame's visible set
Shown(i) ==
    \E j \in 1..Len(allSprites) :
        /\ allSprites[j].texture = heroPositions[i].texture
        /\ IF orch = "game"
           THEN /\ allSprites[j].x = heroPositions[i].x
                /\ allSprites[j].y = heroPositions[i].y
           ELSE allSprites[j].index = i - 1

-----------------------------------------------------------------------------
(* SpecScale: the 'z' and 'x' keys of the three keydown handlers, pressed   *)
(* in any order from the scale factor of the constructor                    *)

InitScale ==
    /\ orch \in {"main", "p12", "game"}
    /\ scale20 = MinScale20
    /\ cameraX = Float(0) /\ cameraY = Float(0)
    /\ mapRows = 0 /\ mapCols = 0 /\ treeCells = {} /\ heroPositions = <<>>
    /\ grassLen = 0 /\ vbWritten = 0 /\ allSprites = <<>>
    /\ IdleBatch /\ IdleTex /\ IdleFrame
    /\ mainPc = "loop" /\ rafScheduled = TRUE /\ framesRendered = 0
    /\ errorLog = <<>> /\ stepFailed = FALSE

NextScale == KeyZ \/ KeyX \/ KeyZTenth \/ KeyXTenth

SpecScale == InitScale /\ [][NextScale]_vars

\* C17: after any sequence of 'z' and 'x' key presses from the initial scale
\* factor 1, the scale factor is at least 1 and at most 4 (20 and 80
\* twentieths).  The clamps Math.min(., 4) and Math.max(., 1) return the
\* bound itself, so the rounding of the additions cannot carry the value
\* past either end.
C17_ScaleWithinRange == scale20 >= 1 * 20 /\ scale20 <= 4 * 20

\* 'z' has been pressed up to the upper end of the range
C17_Witness == scale20 = 4 * 20

-----------------------------------------------------------------------------
(* SpecShader: one invocation of the fragment stage with its blend, or of   *)
(* the compute shader, on inputs drawn at the start                         *)

ObjectTexels == {<<0, 0, 0, 0>>, <<255, 0, 0, 255>>, <<255, 255, 0, 128>>,
                 <<0, 255, 0, 1>>}
ShadowTexels == {<<0, 0, 0, 0>>, <<0, 0, 13, 204>>}
MapTexels    == {<<0, 255, 0, 255>>, <<255, 255, 255, 255>>}
TargetTexels == {<<0, 0, 0, 255>>, <<0, 0, 255, 255>>, <<0, 0, 0, 0>>}

FragmentInputs ==
    [map : MapTexels, shadow : ShadowTexels, object : ObjectTexels,
     target : TargetTexels]

NoRotation == <<Float(0 + 1), Float(0)>>
Rotations  == {NoRotation, <<(<<3, 5>>), (<<4, 5>>)>>}

\* updatePositions: the nine floats of one sprite, and the sprite count
SpriteData(x, y, type, size, baseY, maxShadowDist, rot, tileIndex) ==
    [offsetX |-> x, offsetY |-> y, spriteType |-> type, width |-> size,
     height |-> size, baseY |-> baseY, maxShadowDist |-> maxShadowDist,
     rot |-> rot, tileIndex |-> tileIndex, arrayLength |-> 1]

ShaderSprites ==
    {SpriteData(100, 100, 0, 112, 80, 40, rot, 0) : rot \in Rotations}
    \cup {SpriteData(300, 100, 1, 480, 400, 100, rot, t) :
             rot \in Rotations, t \in {0, 1}}

\* pixels around the base line of the sprite, one outside the canvas and one
\* of a workgroup beyond the sprite array
ShaderPixels(sprite) ==
    {<<sprite.offsetX + rx, sprite.offsetY + sprite.baseY + dy, 0>> :
        rx \in {-30, 10, 56, 150}, dy \in {-40, 0, 20, 30}}
    \cup {<<CanvasWidth, 200, 0>>, <<200, 200, 1>>}

ComputeInputs ==
    {[gid |-> g, canvas |-> <<CanvasWidth, CanvasHeight>>, sprite |-> sp,
      texture |-> t] : g \in UNION {ShaderPixels(x) : x \in ShaderSprites},
                       sp \in ShaderSprites, t \in InputTextures}

InitShader ==
    /\ \/ \E i \in FragmentInputs :
             invocation = [stage |-> "fragment", done |-> FALSE, in |-> i,
                           out |-> <<>>]
       \/ \E i \in ComputeInputs :
             invocation = [stage |-> "compute", done |-> FALSE, in |-> i,
                           out |-> <<>>]
    /\ IdleBatch /\ IdleWorld /\ IdleDraw /\ IdleTex /\ IdleMain
    /\ frameLog = <<>> /\ gpu = NewLibrary

NextShader == RunFragment \/ RunCompute

SpecShader == InitShader /\ [][NextShader]_vars

\* the fragment stage / the compute shader has run on the inputs
FragmentDone == invocation.stage = "fragment" /\ invocation.done
ComputeDone  == invocation.stage = "compute" /\ invocation.done

\* C18: wherever the object texel has alpha > 0, the colour the target holds
\* after the fragment and the blend is the object's colour exactly, whatever
\* the shadow, the map and the previous target colour.
C18_OpaqueWins ==
    (FragmentDone /\ invocation.in.object[4] > 0)
    => invocation.out.target = invocation.in.object

\* the source position of the shadow in the sprite's own coordinates, by the
\* mapping the object sample uses for a canvas pixel
SourceLocal(sprite, gid) ==
    TexCoord(sprite, SourceXY(sprite, <<Float(gid[1]), Float(gid[2])>>))

\* C19: a shadow pixel gets a non-zero alpha only if the position projected
\* back along the light direction lies inside [0, width) x [0, height) of the
\* sprite and the texel there has alpha; otherwise the alpha written is 0.
C19_ShadowOnlyFromInside ==
    (ComputeDone /\ invocation.out.shadowAlpha > 0)
    => LET sp  == invocation.in.sprite
           loc == SourceLocal(sp, invocation.in.gid)
       IN  /\ WithinSprite(loc, sp)
           /\ HasAlpha(invocation.in.texture, Texel(loc, sp), sp)

\* C20: with rotation 0 the sprite-local coordinate of the object sample is
\* the pixel minus the sprite offset, and that of the shadow source sample is
\* the source position minus the sprite offset.
C20_RotationZeroIsIdentity ==
    (ComputeDone /\ invocation.in.sprite.rot = NoRotation)
    => LET sp  == invocation.in.sprite
           pix == <<Float(invocation.in.gid[1]), Float(invocation.in.gid[2])>>
       IN  /\ invocation.out.texCoord = VecSub(pix, Offset(sp))
           /\ InShadowBand(sp, pix)
              => invocation.out.sourceTexCoord
                     = VecSub(SourceXY(sp, pix), Offset(sp))

-----------------------------------------------------------------------------
(* The per-sprite dispatch loop of the object/shadow draw() (SpecOrder)     *)

\* the dispatches a batch records on its own encoder, in program order
OwnDispatches ==
    {d \in Positions("dispatch") :
        \E p \in Positions("beginComputePass") :
            /\ p < d /\ frameLog[p].n = BatchEncoder
            /\ \A q \in Positions("endComputePass") : q < p \/ d < q}

\* the shader's spriteIndex = workgroup_id.z: the values it takes over the
\* workgroups of a dispatch whose z count is the event's n
SpriteIndexRead(d) == 0 .. (frameLog[d].n - 1)

\* the instance count passed to renderPass.draw by the batch w
InstanceCount(w) ==
    LET draws == {r \in Positions("draw") : frameLog[r].who = w}
    IN  IF draws = {} THEN 0 ELSE frameLog[MaxOf(draws)].n

\* C21: in the per-sprite dispatch loop, the i-th dispatch of the frame reads
\* the i-th instance record: for every i below the instance count, the sprite
\* index read during dispatch i is i.
C21_DispatchReadsOwnRecord ==
    \A i \in 0 .. (InstanceCount("hero") - 1) :
        \A d \in OwnDispatches :
            Cardinality({e \in OwnDispatches : e < d}) = i
            => SpriteIndexRead(d) = {i}

-----------------------------------------------------------------------------
(* The readers of the instance storage buffer (SpecUpload)                  *)

\* texture_vertex.wgsl: positions[instanceIndex] of array<Position>,
\* Position = { pos : vec2f, size : vec2f }, 16 bytes = 4 floats a record
VertexRead(data, i) ==
    [pos  |-> <<data[4 * i + 1], data[4 * i + 2]>>,
     size |-> <<data[4 * i + 3], data[4 * i + 4]>>]

\* a u32 field read from the bytes of a float: 0.0 is 0, 1.0 is 0x3F800000
BitsOf(f) == IF f = Float(0) THEN 0 ELSE 1065353216

\* the compute shader's spriteData[spriteIndex] of array<SpriteData>, nine
\* 4-byte fields a record, spriteType a u32
ComputeRead(data, i) ==
    [offsetX |-> data[9 * i + 1], offsetY |-> data[9 * i + 2],
     spriteType |-> BitsOf(data[9 * i + 3]),
     width |-> data[9 * i + 4], height |-> data[9 * i + 5],
     baseY |-> data[9 * i + 6], maxShadowDist |-> data[9 * i + 7],
     rotation |-> data[9 * i + 8], tileIndex |-> data[9 * i + 9]]

\* C22: for every instance index i below the count uploaded, the vertex stage
\* reads for instance i the position and the size packed for the i-th sprite,
\* and the compute stage of the object/shadow revision reads for sprite i the
\* nine fields packed for it.
C22_ReadersSeePackedRecord ==
    (lastCall.op = "updatePositions" /\ lastCall.ret > 0)
    => \A i \in 0 .. (lastCall.ret - 1) :
          LET v  == cb[lastCall.id].variant
              p  == PackOne(v, lastCall.input[i + 1], lastCall.cw, CanvasH(lastCall.cw))
              vs == VertexRead(lastCall.data, i)
          IN  IF v = "shadow"
              THEN /\ vs.pos = <<p[1], p[2]>> /\ vs.size = <<p[4], p[5]>>
                   /\ LET c == ComputeRead(lastCall.data, i)
                      IN  /\ c.offsetX = p[1] /\ c.offsetY = p[2]
                          /\ Float(c.spriteType) = p[3]
                          /\ c.width = p[4] /\ c.height = p[5]
                          /\ c.baseY = p[6] /\ c.maxShadowDist = p[7]
                          /\ c.rotation = p[8] /\ c.tileIndex = p[9]
              ELSE vs.pos = <<p[1], p[2]>> /\ vs.size = <<p[3], p[4]>>

-----------------------------------------------------------------------------
(* Queue writes against recorded commands in WebGPULibrary.draw (SpecOrder) *)
(* queue.writeBuffer takes effect when it is called; the dispatches and     *)
(* draws recorded in the frame's encoder execute at the submit that ends    *)
(* the frame, so each of them reads what the last write before the submit   *)
(* left in the buffer.                                                      *)

\* the draw calls of the compute batches
BatchDraws == {r \in Positions("draw") : frameLog[r].who \in BatchIds}

\* the run of allSprites a dispatch, a draw call or a queue write was issued
\* for, counted from 1: the compute loop ends each run with its dispatch,
\* the render loop with its draw call
RunOfDispatch(d) == 1 + Cardinality({e \in Positions("dispatch") : e < d})
RunOfDraw(r)     == 1 + Cardinality({e \in BatchDraws : e < r})
RunOfWrite(u) ==
    IF \E e \in Positions("endComputePass") : u < e
    THEN 1 + Cardinality({e \in Positions("dispatch") : e < u})
    ELSE 1 + Cardinality({e \in BatchDraws : e < u})

\* the writes of one kind a batch makes in the frame; the last of them is
\* the one the GPU observes
Writes(op, w) == {u \in Positions(op) : frameLog[u].who = w}
Observed(op, w) == MaxOf(Writes(op, w))

\* C23: in a frame of WebGPULibrary.draw, the instance data the GPU reads for
\* a draw call of a compute batch is the data uploaded for that call (for the
\* run the call draws), not the data uploaded by a later call of the frame.
C23_DrawReadsOwnUpload ==
    (orch = "main" /\ framesRendered > 0)
    => \A r \in BatchDraws :
          RunOfWrite(Observed("writeBuffer.data", frameLog[r].who)) = RunOfDraw(r)

\* C24: in a frame of WebGPULibrary.draw, the dispatch recorded for a run
\* executes with the tile and the time uniform written for a sprite of that
\* run, never with a value written for a sprite of a later run.
C24_DispatchReadsOwnUniforms ==
    (orch = "main" /\ framesRendered > 0)
    => \A d \in Positions("dispatch") :
          \A op \in {"writeBuffer.tile", "writeBuffer.time"} :
              Writes(op, frameLog[d].who) # {}
              => RunOfWrite(Observed(op, frameLog[d].who)) = RunOfDispatch(d)

-----------------------------------------------------------------------------
(* SpecLib: one frame of main.js through WebGPULibrary.draw, with compute   *)
(* batches that may be missing or not initialized                           *)

\* computeBatches: both ready, the tree batch constructed but not
\* initialized, the tree batch missing, the hero batch not initialized
LibBatches ==
    {MainBatches,
     [MainBatches EXCEPT !["tree"] = NewBatch("tile", TreeMaxInstances)],
     [MainBatches EXCEPT !["tree"] = NoBatch],
     [MainBatches EXCEPT !["hero"] = NewBatch("tile", HeroMaxInstances)]}

InitLib ==
    /\ orch = "main"
    /\ cb \in LibBatches
    /\ cameraX = Float(0) /\ cameraY = Float(0)
    /\ mapRows = 100 /\ mapCols = 100
    /\ treeCells \in MainTreeCells
    /\ heroPositions \in {Sort("game", h) : h \in SeqsUpTo(MainHeroes0, MaxN)}
    /\ scale20 \in {MinScale20, MaxScale20}
    /\ lastCall = NoCall
    /\ grassLen = 0 /\ vbWritten = 0 /\ allSprites = <<>>
    /\ IdleTex /\ IdleFrame
    /\ mainPc = "loop" /\ rafScheduled = TRUE /\ framesRendered = 0
    /\ errorLog = <<>> /\ stepFailed = FALSE

NextLib == FrameMain

SpecLib == InitLib /\ [][NextLib]_vars

\* the sprites of allSprites whose batch is present and initialized
Drawable ==
    SelectSeq(allSprites,
              LAMBDA sp : cb[BatchOf(sp)].exists /\ isInitialized(cb[BatchOf(sp)]))

\* the maximal runs of one batch in a sprite list, as <<batch, length>>
RECURSIVE RunsOf(_)
RunsOf(s) ==
    IF s = <<>> THEN <<>>
    ELSE LET id == BatchOf(s[1])
             k  == CHOOSE n \in 1..Len(s) :
                       /\ \A j \in 1..n : BatchOf(s[j]) = id
                       /\ n = Len(s) \/ BatchOf(s[n + 1]) # id
         IN  <<(<<id, k>>)>> \o RunsOf(SubSeq(s, k + 1, Len(s)))

\* the batch.draw calls of the frame that drew, as <<batch, instance count>>
DrawCalls ==
    [k \in 1..Cardinality(BatchDraws) |->
        LET r == CHOOSE x \in BatchDraws : RunOfDraw(x) = k
        IN  <<frameLog[r].who, frameLog[r].n>>]

\* C25: in a frame of WebGPULibrary.draw, the sprites whose batch is present
\* and initialized are drawn by one batch.draw call per maximal run, in
\* allSprites order, also when other sprites (the last one included) are
\* skipped for a missing or un-initialized batch.
C25_EveryRunDrawn ==
    (orch = "main" /\ framesRendered > 0) => DrawCalls = RunsOf(Drawable)

-----------------------------------------------------------------------------
(* Dispatches against the instance count in the object/shadow draw()        *)
(* (SpecDraw)                                                               *)

\* the commands of one kind the last call issued
Issued(op) == {i \in 1..Len(lastCall.events) : lastCall.events[i].op = op}

\* C26: a draw() of the per-sprite dispatch revision that draws records as
\* many compute dispatches as the instance count that updatePositions
\* returned and renderPass.draw received, also when the input has more than
\* maxInstances sprites.
C26_DispatchesMatchInstances ==
    (/\ lastCall.op = "draw"
     /\ cb[lastCall.id].variant = "shadow"
     /\ Issued("draw") # {})
    => \A r \in Issued("draw") :
          Cardinality(Issued("dispatch")) = lastCall.events[r].n

-----------------------------------------------------------------------------
(* The two init() runs of one ComputeTextureBatch (SpecUpload)              *)

\* C27: with init() run twice, by the constructor and by the caller, in any
\* interleaving, a batch that reports isInitialized() carries no
\* initialization error.
C27_InitializedMeansNoError ==
    \A id \in BatchIds :
        (cb[id].exists /\ isInitialized(cb[id])) => cb[id].initializationError = "null"

-----------------------------------------------------------------------------
(* Overlapping loads of one URL (SpecTex)                                   *)

\* load j started while load i was still before its cache store
Overlap(i, j) ==
    /\ i # j
    /\ calls[i].url = calls[j].url
    /\ calls[i].start < calls[j].start
    /\ calls[j].start < calls[i].end

\* C28: two completed loadTexture calls for one URL, the second started
\* before the first stored its result, return the same texture, and at
\* most one of them created a GPU texture.
C28_OverlappingLoadsShareTexture ==
    \A i, j \in 1..Len(calls) :
        (calls[i].pc = "done" /\ calls[j].pc = "done" /\ Overlap(i, j))
            => (/\ calls[i].tex = calls[j].tex
                /\ ~(calls[i].created /\ calls[j].created))

-----------------------------------------------------------------------------
(* setComputeShader: replacing the compute shader of a batch                *)

\* shader sources handed to setComputeShader; "" is the empty string, which
\* setupComputePipeline's (computeShaderCode || await fetch(...)) replaces by
\* the fetched default
ShaderCodes == {"custom", ""}

\* a GPU object created by this call, distinct from the one it replaces
Fresh(cur) == IF cur = "setA" THEN "setB" ELSE "setA"

\* setComputeShader run to its end.  outcome "ok": code, layout, pipeline set,
\* then updateComputeBindGroup, which throws on its first line when the
\* output texture was never created; "fetch": the default shader's fetch
\* rejects (only an empty code is fetched); "create":
\* createComputePipelineAsync rejects after code and layout were stored
setComputeShader(b, code, outcome) ==
    LET stored == [b EXCEPT !.currentComputeShaderCode = code]
        coded  == [stored EXCEPT !.currentComputeShaderCode =
                                     IF code = "" THEN "default" ELSE code,
                                 !.computeBindGroupLayout = Fresh(@)]
        piped  == [coded EXCEPT !.computePipeline = Fresh(@)]
    IN  CASE outcome = "fetch" /\ code = "" -> stored
          [] outcome = "create" -> coded
          [] OTHER -> IF b.outTexture = "none" THEN piped
                      ELSE [piped EXCEPT !.computeBindGroup = Fresh(@)]

\* whether the call rejected
SetThrew(b, code, outcome) ==
    \/ outcome = "fetch" /\ code = ""
    \/ outcome = "create"
    \/ b.outTexture = "none"

SetComputeShader(id) ==
    \E code \in ShaderCodes, outcome \in {"ok", "fetch", "create"} :
        /\ cb[id].exists
        /\ cb' = [cb EXCEPT ![id] = setComputeShader(cb[id], code, outcome)]
        /\ lastCall' = [before |-> cb[id], code |-> code,
                        threw |-> SetThrew(cb[id], code, outcome)]
                       @@ [NoCall EXCEPT !.op = "setComputeShader", !.id = id]

(* SpecSwap: one batch, the init() run its constructor started, and         *)
(* setComputeShader calls                                                   *)

NextSwap ==
    /\ \/ ComputeStep("hero")
       \/ RenderStep("hero")
       \/ ResourcesStep("hero")
       \/ SetComputeShader("hero")
    /\ UNCHANGED <<worldVars, drawVars, texVars, mainVars, frameLog, invocation, gpu>>

SpecSwap == InitBatch /\ [][NextSwap]_vars

ComputeState(b) ==
    <<b.computePipeline, b.computeBindGroupLayout, b.computeBindGroup,
      b.currentComputeShaderCode>>

\* C29: a setComputeShader call that fails on an initialized batch leaves
\* computePipeline, computeBindGroupLayout, computeBindGroup and
\* currentComputeShaderCode as they were before the call, and the batch
\* still reports isInitialized().
C29_FailedSwapKeepsState ==
    (/\ lastCall.op = "setComputeShader"
     /\ lastCall.threw
     /\ isInitialized(lastCall.before))
        => (/\ ComputeState(cb[lastCall.id]) = ComputeState(lastCall.before)
            /\ isInitialized(cb[lastCall.id]))

-----------------------------------------------------------------------------
(* SpecRegistry: a WebGPULibrary of part_003, the shaders, textures,        *)
(* compute pipelines and batches an application sets up, and drawComputes   *)

InitRegistry ==
    /\ IdleBatch /\ IdleWorld /\ IdleDraw /\ IdleTex /\ IdleMain /\ IdleFrame

NextRegistry ==
    \/ LibInitialize
    \/ LibLoadTexture
    \/ LibNewShader
    \/ LibNewSpriteBatch
    \/ LibSetupComputePipeline
    \/ LibDrawComputes

SpecRegistry == InitRegistry /\ [][NextRegistry]_vars

\* positions of the events of one kind in the last drawComputes call
RegistryEvents(op) ==
    {k \in 1..Len(gpu.last.events) : gpu.last.events[k].op = op}

\* the temporary batches the last call entered in the registry
Temporaries == {gpu.last.events[k].n : k \in RegistryEvents("newSpriteBatch")}

\* C30: after a drawComputes call, returned or thrown, the registry holds
\* exactly the batches it held before; every temporary batch the call
\* created was destroyed and removed, and none was destroyed before the
\* submit of the frame's command buffer.
C30_RegistryRestored ==
    gpu.last.op = "drawComputes" =>
        /\ gpu.batches = gpu.last.before
        /\ \A id \in Temporaries :
               /\ id \notin BatchKeys(gpu)
               /\ \E d \in RegistryEvents("destroy") : gpu.last.events[d].n = id
        /\ \A d \in RegistryEvents("destroy") :
               \E q \in RegistryEvents("submit") : q < d

\* a frame with two temporary batches next to a batch the application keeps
C30_Witness ==
    /\ gpu.last.op = "drawComputes"
    /\ ~gpu.last.threw
    /\ Cardinality(Temporaries) = 2
    /\ BatchKeys(gpu) # {}
=============================================================================
